---- MODULE Spec2Model ----
(***************************************************************************)
(* Token lifecycle of service-1-user: the TokenManager of internal/auth    *)
(* (JWT issue / validate / revoke over a Redis denylist) and the request   *)
(* flows built on it.                                                      *)
(*                                                                         *)
(* Time is a discrete clock `now` counted in ticks; one second is          *)
(* TimePrecision ticks.  A JWT NumericDate only carries whole seconds, so  *)
(* issued-at and expires-at are truncated to a multiple of TimePrecision.  *)
(* HS256 is deterministic: a token string is a function of header, claims  *)
(* and key, so two tokens with equal header and claims are the same string.*)
(* The Redis clock is the application clock and a TTL is kept at tick      *)
(* resolution.                                                             *)
(***************************************************************************)
EXTENDS Integers, Sequences, FiniteSets, TLC

\* ------------------------------------------------------------------ bounds
\* ticks per second of the model clock
TimePrecision == 2
\* last tick of the clock
MaxTime == 5
\* number of distinct token strings the manager hands out in one run
MaxIssued == 2

\* longest token duration, in seconds, a TokenManager is constructed with
MaxConfigSeconds == 3

\* number of rows the users table can hold
MaxUsers == 3

\* --------------------------------------------------------- configuration
\* ACCESS_TOKEN_DURATION, scaled: whole seconds
AccessSeconds == 1
\* REFRESH_TOKEN_DURATION, scaled: whole seconds
RefreshSeconds == 2

accessTokenDuration == AccessSeconds * TimePrecision
refreshTokenDuration == RefreshSeconds * TimePrecision

\* the signing secret handed to NewTokenManager
secretKey == "jwt-secret"

TokenTypeAccess == "access"
TokenTypeRefresh == "refresh"

\* rows of the users table a token can be issued for
Users == { [id |-> 1, email |-> "a@x.io"], [id |-> 2, email |-> "b@x.io"] }

\* concurrent RefreshToken requests
Procs == {"p1", "p2"}

\* a nil *jwt.NumericDate
NilTime == -1

VARIABLES
    now,      \* time.Now(), in ticks
    redis,    \* the denylist: token string -> tick at which the key's TTL ends
    redisUp,  \* whether the Redis client's calls succeed
    issuedFor, \* token strings the manager has returned -> what they were requested for
    pc,       \* position of each RefreshToken request
    rt,       \* the refresh token each RefreshToken request presented
    resp,     \* the response each RefreshToken request last returned
    last,     \* the call that completed last and what it returned
    revokedOk, \* tokens for which InvalidateToken returned nil before their expiry
    usersTable \* the users table: id -> row

vars == <<now, redis, redisUp, issuedFor, pc, rt, resp, last, revokedOk, usersTable>>

\* ------------------------------------------------------------ token codec
\* jwt.NewNumericDate: a time truncated to whole seconds
NewNumericDate(t) == t - (t % TimePrecision)

\* HMAC-SHA256 of header and payload under a key
HMAC(key, alg, claims) == <<key, alg, claims>>

\* jwt.NewWithClaims(method, claims) followed by SignedString(key)
SignedString(alg, claims, key) ==
    [alg |-> alg, claims |-> claims, sig |-> HMAC(key, alg, claims)]

NoClaims == [user_id |-> 0, email |-> "", token_type |-> "", exp |-> NilTime, iat |-> NilTime]
NoToken == [alg |-> "", claims |-> NoClaims, sig |-> <<>>]

\* an access token whose claims leave the email out
GenerateToken_NoEmail(userID, email, t) ==
    SignedString("HS256",
                 [user_id |-> userID, email |-> "", token_type |-> TokenTypeAccess,
                  exp |-> NewNumericDate(t + accessTokenDuration),
                  iat |-> NewNumericDate(t)],
                 secretKey)

\* TokenManager.GenerateToken at time t
GenerateToken(userID, email, t) ==
    SignedString("HS256",
                 [user_id |-> userID, email |-> email, token_type |-> TokenTypeAccess,
                  exp |-> NewNumericDate(t + accessTokenDuration),
                  iat |-> NewNumericDate(t)],
                 secretKey)

\* a refresh token stamped with the access kind
GenerateRefreshToken_AccessKind(userID, email, t) ==
    SignedString("HS256",
                 [user_id |-> userID, email |-> email, token_type |-> TokenTypeAccess,
                  exp |-> NewNumericDate(t + refreshTokenDuration),
                  iat |-> NewNumericDate(t)],
                 secretKey)

\* TokenManager.GenerateRefreshToken at time t
GenerateRefreshToken(userID, email, t) ==
    SignedString("HS256",
                 [user_id |-> userID, email |-> email, token_type |-> TokenTypeRefresh,
                  exp |-> NewNumericDate(t + refreshTokenDuration),
                  iat |-> NewNumericDate(t)],
                 secretKey)

\* token strings that were not produced by this manager: claims signed with
\* another key
ForgedTokens ==
    { SignedString("HS256",
                   [user_id |-> 1, email |-> "a@x.io", token_type |-> TokenTypeAccess,
                    exp |-> 2 * TimePrecision, iat |-> 0],
                   "other-secret") }

\* decodable token strings that carry no exp claim
UnexpiringTokens ==
    { SignedString("HS256",
                   [user_id |-> 1, email |-> "a@x.io", token_type |-> TokenTypeAccess,
                    exp |-> NilTime, iat |-> 0],
                   "other-secret") }

\* every token string a run can meet
AllTokens ==
    ForgedTokens
    \cup { GenerateToken(u.id, u.email, t) : u \in Users, t \in 0..MaxTime }
    \cup { GenerateRefreshToken(u.id, u.email, t) : u \in Users, t \in 0..MaxTime }

\* a string that is not three base64 segments of JSON
GarbageToken == [alg |-> "malformed", claims |-> NoClaims, sig |-> <<>>]

\* jwt.Parser.ParseUnverified decodes the token's header and claims
WellFormed(tok) == tok.alg \notin {"", "malformed"}

\* ---------------------------------------------------------------- store
\* a lookup under a key that is never written
RedisGet_WrongKey(tok) ==
    IF ~redisUp THEN "error" ELSE "nil"

\* redisClient.Get(ctx, "blacklist:" + token): "found", redis.Nil or an error
RedisGet(tok) ==
    IF ~redisUp THEN "error"
    ELSE IF tok \in DOMAIN redis /\ now < redis[tok] THEN "found"
    ELSE "nil"

\* a write without expiry: the key is kept beyond the end of the clock
RedisSet_Persistent(tok, ttl) ==
    [k \in DOMAIN redis \cup {tok} |-> IF k = tok THEN MaxTime + 1 ELSE redis[k]]

\* a write that the store acknowledges and loses
RedisSet_Dropped(tok, ttl) == redis

\* a write keyed by the token's subject: every token issued to that user is listed
RedisSet_BySubject(tok, ttl) ==
    [k \in DOMAIN redis \cup
           {t \in DOMAIN issuedFor \cup {tok} : t.claims.user_id = tok.claims.user_id} |->
        IF k.claims.user_id = tok.claims.user_id THEN now + ttl ELSE redis[k]]

\* a write that removes the key when it is already there
RedisSet_Toggle(tok, ttl) ==
    IF tok \in DOMAIN redis
    THEN [k \in DOMAIN redis \ {tok} |-> redis[k]]
    ELSE [k \in DOMAIN redis \cup {tok} |-> IF k = tok THEN now + ttl ELSE redis[k]]

\* a write that replaces the whole denylist by the one key
RedisSet_Flush(tok, ttl) == [k \in {tok} |-> now + ttl]

\* redisClient.Set(ctx, "blacklist:" + token, "revoked", ttl): the key lives ttl from now
RedisSet(tok, ttl) ==
    [k \in DOMAIN redis \cup {tok} |-> IF k = tok THEN now + ttl ELSE redis[k]]

\* token.Method.(*jwt.SigningMethodHMAC): the algorithms of the HMAC family
IsHMAC(alg) == alg \in {"HS256", "HS384", "HS512"}

\* a parser whose key function hands out the key for every signing method;
\* the "none" method then verifies without a signature
ParseWithClaims_AnyMethod(tok) ==
    IF ~WellFormed(tok) THEN "token is malformed"
    ELSE IF tok.alg # "none" /\ tok.sig # HMAC(secretKey, tok.alg, tok.claims)
    THEN "signature is invalid"
    ELSE IF tok.claims.exp # NilTime /\ ~(now < tok.claims.exp) THEN "token is expired"
    ELSE "nil"

\* ------------------------------------------------------------ validation
\* a parser that skips the validation of the registered claims
ParseWithClaims_NoExpiry(tok) ==
    IF ~IsHMAC(tok.alg) THEN "unexpected signing method"
    ELSE IF tok.sig # HMAC(secretKey, tok.alg, tok.claims) THEN "signature is invalid"
    ELSE "nil"

\* jwt.ParseWithClaims with the HMAC key function: nil, or the first error
ParseWithClaims(tok) ==
    IF ~WellFormed(tok) THEN "token is malformed"
    ELSE IF ~IsHMAC(tok.alg) THEN "unexpected signing method"
    ELSE IF tok.sig # HMAC(secretKey, tok.alg, tok.claims) THEN "signature is invalid"
    ELSE IF tok.claims.exp # NilTime /\ ~(now < tok.claims.exp) THEN "token is expired"
    ELSE "nil"

Result(err, claims) == [err |-> err, claims |-> claims]

\* a validator that compares the kind before it looks at the expiry
ValidateKind_KindFirst(tok, kind) ==
    IF RedisGet(tok) = "found" THEN Result("token has been revoked", NoClaims)
    ELSE IF RedisGet(tok) # "nil" THEN Result("redis error", NoClaims)
    ELSE IF ParseWithClaims(tok) \notin {"nil", "token is expired"}
         THEN Result(ParseWithClaims(tok), NoClaims)
    ELSE IF tok.claims.token_type # kind THEN Result("invalid token type", NoClaims)
    ELSE IF ParseWithClaims(tok) # "nil" THEN Result(ParseWithClaims(tok), NoClaims)
    ELSE Result("nil", tok.claims)

\* a validator that treats a failed denylist read as "not listed"
ValidateKind_FailOpen(tok, kind) ==
    IF RedisGet(tok) = "found" THEN Result("token has been revoked", NoClaims)
    ELSE IF ParseWithClaims(tok) # "nil" THEN Result(ParseWithClaims(tok), NoClaims)
    ELSE IF tok.claims.token_type # kind THEN Result("invalid token type", NoClaims)
    ELSE Result("nil", tok.claims)

\* a validator that parses and verifies the token before it reads the denylist
ValidateKind_ParseFirst(tok, kind) ==
    IF ParseWithClaims(tok) # "nil" THEN Result(ParseWithClaims(tok), NoClaims)
    ELSE IF RedisGet(tok) = "found" THEN Result("token has been revoked", NoClaims)
    ELSE IF RedisGet(tok) # "nil" THEN Result("redis error", NoClaims)
    ELSE IF tok.claims.token_type # kind THEN Result("invalid token type", NoClaims)
    ELSE Result("nil", tok.claims)

\* the body ValidateToken and ValidateRefreshToken share
ValidateKind(tok, kind) ==
    IF RedisGet(tok) = "found" THEN Result("token has been revoked", NoClaims)
    ELSE IF RedisGet(tok) # "nil" THEN Result("redis error", NoClaims)
    ELSE IF ParseWithClaims(tok) # "nil" THEN Result(ParseWithClaims(tok), NoClaims)
    ELSE IF tok.claims.token_type # kind THEN Result("invalid token type", NoClaims)
    ELSE Result("nil", tok.claims)

\* TokenManager.ValidateToken
ValidateToken(tok) == ValidateKind(tok, TokenTypeAccess)

\* TokenManager.ValidateRefreshToken
ValidateRefreshToken(tok) == ValidateKind(tok, TokenTypeRefresh)

\* ------------------------------------------------------------ revocation
\* time.Until(claims.ExpiresAt.Time)
timeRemaining(tok) == tok.claims.exp - now

\* a revocation that keeps the entry for the access-token lifetime
InvalidateToken_AccessTTL(tok) ==
    IF timeRemaining(tok) <= 0 THEN [err |-> "nil", redis |-> redis]
    ELSE IF ~redisUp THEN [err |-> "redis error", redis |-> redis]
    ELSE [err |-> "nil", redis |-> RedisSet(tok, accessTokenDuration)]

\* a revocation that keeps the entry for the longest token lifetime
InvalidateToken_FullTTL(tok) ==
    IF timeRemaining(tok) <= 0 THEN [err |-> "nil", redis |-> redis]
    ELSE IF ~redisUp THEN [err |-> "redis error", redis |-> redis]
    ELSE [err |-> "nil", redis |-> RedisSet(tok, refreshTokenDuration)]

\* a revocation that writes the entry whatever the remaining lifetime
InvalidateToken_NoExpiredCheck(tok) ==
    IF ~redisUp THEN [err |-> "redis error", redis |-> redis]
    ELSE [err |-> "nil", redis |-> RedisSet(tok, timeRemaining(tok))]

\* a revocation that reports success when the write to the store failed
InvalidateToken_SwallowsSetError(tok) ==
    IF ~WellFormed(tok) THEN [err |-> "token is malformed", redis |-> redis]
    ELSE IF timeRemaining(tok) <= 0 THEN [err |-> "nil", redis |-> redis]
    ELSE IF ~redisUp THEN [err |-> "nil", redis |-> redis]
    ELSE [err |-> "nil", redis |-> RedisSet(tok, timeRemaining(tok))]

\* the run-time panic of reading a field through a nil pointer
Panic == "panic: invalid memory address or nil pointer dereference"

\* TokenManager.InvalidateToken: the error returned and the denylist left;
\* claims.ExpiresAt is a nil *NumericDate when the token carries no exp claim,
\* and claims.ExpiresAt.Time then panics
InvalidateToken(tok) ==
    IF ~WellFormed(tok) THEN [err |-> "token is malformed", redis |-> redis]
    ELSE IF tok.claims.exp = NilTime THEN [err |-> Panic, redis |-> redis]
    ELSE IF timeRemaining(tok) <= 0 THEN [err |-> "nil", redis |-> redis]
    ELSE IF ~redisUp THEN [err |-> "redis error", redis |-> redis]
    ELSE [err |-> "nil", redis |-> RedisSet(tok, timeRemaining(tok))]

\* ---------------------------------------------------------------- state
NoResp == [err |-> "", old |-> NoToken, access |-> NoToken, refresh |-> NoToken]

Call(op, tok, err, claims) ==
    [op |-> op, tok |-> tok, err |-> err, claims |-> claims]

\* the password each row of the users table was created with
PasswordOf(u) == IF u.id = 1 THEN "Secret1a" ELSE "Secret2b"

\* auth.HashPassword: the bcrypt hash of a password
HashPassword(password) == <<"bcrypt", password>>

\* auth.CheckPassword: bcrypt.CompareHashAndPassword succeeds
CheckPassword(password, hash) == hash = HashPassword(password)

\* the name each row of the users table was created with
NameOf(u) == IF u.id = 1 THEN "Ann" ELSE "Bob"

\* the users table before the first request
InitialRows ==
    [id \in {u.id : u \in Users} |->
        LET u == CHOOSE u \in Users : u.id = id
        IN [name |-> NameOf(u), email |-> u.email,
            password_hash |-> HashPassword(PasswordOf(u))]]

Init ==
    /\ now = 0
    /\ redis = << >>
    /\ redisUp = TRUE
    /\ issuedFor = << >>
    /\ pc = [p \in Procs |-> "idle"]
    /\ rt = [p \in Procs |-> NoToken]
    /\ resp = [p \in Procs |-> NoResp]
    /\ last = Call("none", NoToken, "", NoClaims)
    /\ revokedOk = {}
    /\ usersTable = InitialRows

\* token strings the manager has returned to callers
issued == DOMAIN issuedFor

\* tokens a caller can present
Presentable == issued \cup ForgedTokens

CanIssue(toks) == Cardinality(issued \cup toks) <= MaxIssued

\* the record of issued tokens after tok was returned for (kind, userID, email)
Record(f, tok, kind, userID, email) ==
    [k \in DOMAIN f \cup {tok} |->
        IF k \in DOMAIN f THEN f[k]
        ELSE [kind |-> kind, user_id |-> userID, email |-> email]]

\* a caller obtains an access token
CallGenerateToken(u) ==
    LET tok == GenerateToken(u.id, u.email, now) IN
    /\ CanIssue({tok})
    /\ issuedFor' = Record(issuedFor, tok, TokenTypeAccess, u.id, u.email)
    /\ last' = Call("GenerateToken", tok, "nil", NoClaims)
    /\ UNCHANGED <<usersTable, now, redis, redisUp, pc, rt, resp, revokedOk>>

\* a caller obtains a refresh token
CallGenerateRefreshToken(u) ==
    LET tok == GenerateRefreshToken(u.id, u.email, now) IN
    /\ CanIssue({tok})
    /\ issuedFor' = Record(issuedFor, tok, TokenTypeRefresh, u.id, u.email)
    /\ last' = Call("GenerateRefreshToken", tok, "nil", NoClaims)
    /\ UNCHANGED <<usersTable, now, redis, redisUp, pc, rt, resp, revokedOk>>

\* a validation that remembers a rejected token by listing it in the store
CallValidateToken_Caches(tok) ==
    /\ last' = Call("ValidateToken", tok, ValidateToken(tok).err,
                    ValidateToken(tok).claims)
    /\ redis' = IF ValidateToken(tok).err \notin {"nil", "redis error"} /\ WellFormed(tok)
                THEN RedisSet(tok, 1) ELSE redis
    /\ UNCHANGED <<usersTable, now, redisUp, issuedFor, pc, rt, resp, revokedOk>>

CallValidateToken(tok) ==
    /\ last' = Call("ValidateToken", tok, ValidateToken(tok).err,
                    ValidateToken(tok).claims)
    /\ UNCHANGED <<usersTable, now, redis, redisUp, issuedFor, pc, rt, resp, revokedOk>>

CallValidateRefreshToken(tok) ==
    /\ last' = Call("ValidateRefreshToken", tok, ValidateRefreshToken(tok).err,
                    ValidateRefreshToken(tok).claims)
    /\ UNCHANGED <<usersTable, now, redis, redisUp, issuedFor, pc, rt, resp, revokedOk>>

\* the tokens revoked before their expiry, after one more InvalidateToken
Revoked(tok) ==
    IF InvalidateToken(tok).err = "nil" /\ timeRemaining(tok) > 0
    THEN revokedOk \cup {tok} ELSE revokedOk

CallInvalidateToken(tok) ==
    /\ redis' = InvalidateToken(tok).redis
    /\ revokedOk' = Revoked(tok)
    /\ last' = Call("InvalidateToken", tok, InvalidateToken(tok).err, NoClaims)
    /\ UNCHANGED <<usersTable, now, redisUp, issuedFor, pc, rt, resp>>

\* the clock advances
Tick ==
    /\ now < MaxTime
    /\ now' = now + 1
    /\ UNCHANGED <<usersTable, redis, redisUp, issuedFor, pc, rt, resp, last, revokedOk>>

\* Redis drops a key whose TTL has run out
ExpireKey(tok) ==
    /\ tok \in DOMAIN redis
    /\ redis[tok] <= now
    /\ redis' = [k \in DOMAIN redis \ {tok} |-> redis[k]]
    /\ UNCHANGED <<usersTable, now, redisUp, issuedFor, pc, rt, resp, last, revokedOk>>

Next ==
    \/ \E u \in Users : CallGenerateToken(u)
    \/ \E u \in Users : CallGenerateRefreshToken(u)
    \/ \E tok \in Presentable : CallValidateToken(tok)
    \/ \E tok \in Presentable : CallValidateRefreshToken(tok)
    \/ \E tok \in Presentable : CallInvalidateToken(tok)
    \/ Tick
    \/ \E tok \in AllTokens : ExpireKey(tok)

Spec == Init /\ [][Next]_vars

\* ------------------------------------------------------- RefreshToken RPC
\* an error response of RefreshToken
Failure(msg) == [err |-> msg, old |-> NoToken, access |-> NoToken, refresh |-> NoToken]

\* RefreshToken, step 1: ValidateRefreshToken(old); a failure ends the request
RefreshValidate(p, tok) ==
    /\ pc[p] = "idle"
    /\ IF ValidateRefreshToken(tok).err = "nil"
       THEN /\ pc' = [pc EXCEPT ![p] = "validated"]
            /\ rt' = [rt EXCEPT ![p] = tok]
            /\ resp' = [resp EXCEPT ![p] = NoResp]
       ELSE /\ pc' = pc
            /\ rt' = rt
            /\ resp' = [resp EXCEPT ![p] = Failure("invalid or expired refresh token")]
    /\ last' = Call("RefreshToken.validate", tok, ValidateRefreshToken(tok).err,
                    ValidateRefreshToken(tok).claims)
    /\ UNCHANGED <<usersTable, now, redis, redisUp, issuedFor, revokedOk>>

\* RefreshToken, step 2: InvalidateToken(old); a failure aborts the request
RefreshRevoke(p) ==
    /\ pc[p] = "validated"
    /\ redis' = InvalidateToken(rt[p]).redis
    /\ revokedOk' = Revoked(rt[p])
    /\ IF InvalidateToken(rt[p]).err = "nil"
       THEN /\ pc' = [pc EXCEPT ![p] = "revoked"]
            /\ resp' = resp
       ELSE /\ pc' = [pc EXCEPT ![p] = "idle"]
            /\ resp' = [resp EXCEPT ![p] = Failure("failed to refresh token")]
    /\ rt' = IF InvalidateToken(rt[p]).err = "nil" THEN rt ELSE [rt EXCEPT ![p] = NoToken]
    /\ last' = Call("RefreshToken.revoke", rt[p], InvalidateToken(rt[p]).err, NoClaims)
    /\ UNCHANGED <<usersTable, now, redisUp, issuedFor>>

\* RefreshToken, steps 3 to 5: a new pair for the claims of the old token
RefreshIssue(p) ==
    LET c == rt[p].claims
        access == GenerateToken(c.user_id, c.email, now)
        refresh == GenerateRefreshToken(c.user_id, c.email, now)
    IN
    /\ pc[p] = "revoked"
    /\ pc' = [pc EXCEPT ![p] = "idle"]
    /\ issuedFor' = Record(Record(issuedFor, access, TokenTypeAccess, c.user_id, c.email),
                           refresh, TokenTypeRefresh, c.user_id, c.email)
    /\ resp' = [resp EXCEPT ![p] =
                  [err |-> "nil", old |-> rt[p], access |-> access, refresh |-> refresh]]
    /\ rt' = [rt EXCEPT ![p] = NoToken]
    /\ last' = Call("RefreshToken", rt[p], "nil", c)
    /\ UNCHANGED <<usersTable, now, redis, redisUp, revokedOk>>

NextRotate ==
    \/ \E u \in Users : CallGenerateRefreshToken(u)
    \/ \E p \in Procs : \E tok \in Presentable : RefreshValidate(p, tok)
    \/ \E p \in Procs : RefreshRevoke(p)
    \/ \E p \in Procs : RefreshIssue(p)
    \/ Tick

SpecRotate == Init /\ [][NextRotate]_vars

\* ---------------------------------------------------------------- helpers
Kinds == {TokenTypeAccess, TokenTypeRefresh}

ErrRevoked == "token has been revoked"
ErrExpired == "token is expired"
ErrSignature == "signature is invalid"
ErrTokenType == "invalid token type"

\* the configured lifetime of a token of the given kind
DurationOf(kind) ==
    IF kind = TokenTypeAccess THEN accessTokenDuration ELSE refreshTokenDuration

\* the token's expires-at has been reached
Expired(tok) == tok.claims.exp # NilTime /\ now >= tok.claims.exp

\* the token is rejected for good: on the denylist or past its expires-at
Terminal(tok) == RedisGet(tok) = "found" \/ Expired(tok)

\* ------------------------------------------------------------ RPC layer
CodeSuccess == "Success"
CodeInvalidArgument == "InvalidArgument"
CodeUnauthorized == "Unauthorized"
CodeInternal == "Internal"

NoUser == [id |-> 0, email |-> ""]

\* repo.GetByEmailWithPassword: the row with its hash, ErrUserNotFound, or a query error
GetByEmailWithPassword(email, dbErr) ==
    IF dbErr THEN [err |-> "query failed", user |-> NoUser, hash |-> <<>>]
    ELSE IF \E u \in Users : u.email = email
    THEN LET u == CHOOSE u \in Users : u.email = email
         IN [err |-> "nil", user |-> u, hash |-> HashPassword(PasswordOf(u))]
    ELSE [err |-> "ErrUserNotFound", user |-> NoUser, hash |-> <<>>]

LoginResp(code, message, access, refresh, user) ==
    [code |-> code, message |-> message, access_token |-> access,
     refresh_token |-> refresh, user |-> user]

\* a Login that tells an unknown email from a wrong password
LoginResponse_NotFound(email, password, dbErr) ==
    LET row == GetByEmailWithPassword(email, dbErr) IN
    IF email = "" THEN LoginResp(CodeInvalidArgument, "email is required", NoToken, NoToken, NoUser)
    ELSE IF password = ""
    THEN LoginResp(CodeInvalidArgument, "password is required", NoToken, NoToken, NoUser)
    ELSE IF row.err = "ErrUserNotFound"
    THEN LoginResp("NotFound", "user not found", NoToken, NoToken, NoUser)
    ELSE IF row.err # "nil"
    THEN LoginResp(CodeInternal, "failed to get user", NoToken, NoToken, NoUser)
    ELSE IF ~CheckPassword(password, row.hash)
    THEN LoginResp(CodeUnauthorized, "invalid email or password", NoToken, NoToken, NoUser)
    ELSE LoginResp(CodeSuccess, "success",
                   GenerateToken(row.user.id, row.user.email, now),
                   GenerateRefreshToken(row.user.id, row.user.email, now),
                   row.user)

\* userServiceServer.Login: the response
LoginResponse(email, password, dbErr) ==
    LET row == GetByEmailWithPassword(email, dbErr) IN
    IF email = "" THEN LoginResp(CodeInvalidArgument, "email is required", NoToken, NoToken, NoUser)
    ELSE IF password = ""
    THEN LoginResp(CodeInvalidArgument, "password is required", NoToken, NoToken, NoUser)
    ELSE IF row.err = "ErrUserNotFound"
    THEN LoginResp(CodeUnauthorized, "invalid email or password", NoToken, NoToken, NoUser)
    ELSE IF row.err # "nil"
    THEN LoginResp(CodeInternal, "failed to get user", NoToken, NoToken, NoUser)
    ELSE IF ~CheckPassword(password, row.hash)
    THEN LoginResp(CodeUnauthorized, "invalid email or password", NoToken, NoToken, NoUser)
    ELSE LoginResp(CodeSuccess, "success",
                   GenerateToken(row.user.id, row.user.email, now),
                   GenerateRefreshToken(row.user.id, row.user.email, now),
                   row.user)

ValidateResp(code, message, valid, userID, email) ==
    [code |-> code, message |-> message, valid |-> valid, user_id |-> userID, email |-> email]

\* a ValidateToken RPC that passes the manager's error text on
ValidateTokenResponse_LeaksError(tok) ==
    IF tok = NoToken THEN ValidateResp(CodeInvalidArgument, "token is required", FALSE, 0, "")
    ELSE IF ValidateToken(tok).err # "nil"
    THEN ValidateResp(CodeUnauthorized, ValidateToken(tok).err, FALSE, 0, "")
    ELSE ValidateResp(CodeSuccess, "success", TRUE,
                      ValidateToken(tok).claims.user_id, ValidateToken(tok).claims.email)

\* userServiceServer.ValidateToken: the response
ValidateTokenResponse(tok) ==
    IF tok = NoToken THEN ValidateResp(CodeInvalidArgument, "token is required", FALSE, 0, "")
    ELSE IF ValidateToken(tok).err # "nil"
    THEN ValidateResp(CodeUnauthorized, "invalid or expired token", FALSE, 0, "")
    ELSE ValidateResp(CodeSuccess, "success", TRUE,
                      ValidateToken(tok).claims.user_id, ValidateToken(tok).claims.email)

LogoutResp(code, message, success) ==
    [code |-> code, message |-> message, success |-> success]

\* a Logout that hands an empty token to InvalidateToken
LogoutResponse_NoTokenCheck(tok, refresh) ==
    IF InvalidateToken(tok).err = Panic THEN LogoutResp(Panic, Panic, FALSE)
    ELSE IF InvalidateToken(tok).err # "nil"
    THEN LogoutResp(CodeInternal, "failed to logout", FALSE)
    ELSE LogoutResp(CodeSuccess, "success", TRUE)

\* userServiceServer.Logout: the response; the request's refresh token is not read
LogoutResponse(tok, refresh) ==
    IF tok = NoToken THEN LogoutResp(CodeInvalidArgument, "token is required", FALSE)
    ELSE IF InvalidateToken(tok).err = Panic THEN LogoutResp(Panic, Panic, FALSE)
    ELSE IF InvalidateToken(tok).err # "nil"
    THEN LogoutResp(CodeInternal, "failed to logout", FALSE)
    ELSE LogoutResp(CodeSuccess, "success", TRUE)

\* userServiceServer.Logout: the denylist it leaves
LogoutStore(tok, refresh) ==
    IF tok = NoToken THEN redis ELSE InvalidateToken(tok).redis

\* a completed RPC: what the manager returned inside it, the request and the response
Rpc(op, tok, err, claims, req, out) ==
    [op |-> op, tok |-> tok, err |-> err, claims |-> claims, req |-> req, out |-> out]

\* the Login RPC
Login(email, password, dbErr) ==
    LET out == LoginResponse(email, password, dbErr)
        ok == out.code = CodeSuccess
    IN
    /\ ok => CanIssue({out.access_token, out.refresh_token})
    /\ issuedFor' =
         IF ok
         THEN Record(Record(issuedFor, out.access_token, TokenTypeAccess,
                            out.user.id, out.user.email),
                     out.refresh_token, TokenTypeRefresh, out.user.id, out.user.email)
         ELSE issuedFor
    /\ last' = Rpc("RPC.Login", NoToken, GetByEmailWithPassword(email, dbErr).err, NoClaims,
                   [email |-> email, password |-> password, dbErr |-> dbErr], out)
    /\ UNCHANGED <<usersTable, now, redis, redisUp, pc, rt, resp, revokedOk>>

\* the ValidateToken RPC
RpcValidateToken(tok) ==
    /\ last' = Rpc("RPC.ValidateToken", tok,
                   IF tok = NoToken THEN "" ELSE ValidateToken(tok).err,
                   IF tok = NoToken THEN NoClaims ELSE ValidateToken(tok).claims,
                   [token |-> tok], ValidateTokenResponse(tok))
    /\ UNCHANGED <<usersTable, now, redis, redisUp, issuedFor, pc, rt, resp, revokedOk>>

\* the Logout RPC
Logout(tok, refresh) ==
    /\ redis' = LogoutStore(tok, refresh)
    /\ revokedOk' = IF tok = NoToken THEN revokedOk ELSE Revoked(tok)
    /\ last' = Rpc("RPC.Logout", tok,
                   IF tok = NoToken THEN "" ELSE InvalidateToken(tok).err, NoClaims,
                   [token |-> tok, refresh_token |-> refresh], LogoutResponse(tok, refresh))
    /\ UNCHANGED <<usersTable, now, redisUp, issuedFor, pc, rt, resp>>

\* the Redis server stops answering
RedisFail ==
    /\ redisUp
    /\ redisUp' = FALSE
    /\ UNCHANGED <<usersTable, now, redis, issuedFor, pc, rt, resp, last, revokedOk>>

\* the Redis server answers again, its keys intact
RedisRecover ==
    /\ ~redisUp
    /\ redisUp' = TRUE
    /\ UNCHANGED <<usersTable, now, redis, issuedFor, pc, rt, resp, last, revokedOk>>

\* what a Login request can carry
LoginEmails == {"", "nobody@x.io"} \cup {u.email : u \in Users}
LoginPasswords == {""} \cup {PasswordOf(u) : u \in Users}

\* the token strings an RPC request can carry: the empty string, garbage, or a token
RpcTokens == Presentable \cup {NoToken, GarbageToken}

NextRpc ==
    \/ \E e \in LoginEmails : \E pw \in LoginPasswords : \E dbErr \in BOOLEAN :
          Login(e, pw, dbErr)
    \/ \E tok \in RpcTokens : RpcValidateToken(tok)
    \/ \E tok \in RpcTokens : \E refresh \in {NoToken} \cup issued : Logout(tok, refresh)
    \/ Tick
    \/ RedisFail
    \/ RedisRecover

SpecRpc == Init /\ [][NextRpc]_vars

\* one RefreshToken request at a time against a store that can stop answering
NextRotateFault ==
    \/ \E u \in Users : CallGenerateRefreshToken(u)
    \/ \E tok \in Presentable : RefreshValidate("p1", tok)
    \/ RefreshRevoke("p1")
    \/ RefreshIssue("p1")
    \/ Tick
    \/ RedisFail
    \/ RedisRecover

SpecRotateFault == Init /\ [][NextRotateFault]_vars

\* ------------------------------------------- concurrent Validate / Revoke
\* ValidateToken / ValidateRefreshToken after redisClient.Get has returned get
ValidateAfterGet(get, tok, kind) ==
    IF get = "found" THEN Result("token has been revoked", NoClaims)
    ELSE IF get # "nil" THEN Result("redis error", NoClaims)
    ELSE IF ParseWithClaims(tok) # "nil" THEN Result(ParseWithClaims(tok), NoClaims)
    ELSE IF tok.claims.token_type # kind THEN Result("invalid token type", NoClaims)
    ELSE Result("nil", tok.claims)

\* what a call in flight holds: the token, what the store answered, and
\* whether at the time of the store read a revocation of the token had been
\* acknowledged (before the token's expiry) and whether its key had been written
InFlight(tok, get, acked, written) ==
    [err |-> get, old |-> tok, access |-> NoToken, refresh |-> NoToken,
     acked |-> acked, written |-> written]

\* a completed call of a concurrent caller
Done(op, tok, err, claims, acked, written) ==
    [op |-> op, tok |-> tok, err |-> err, claims |-> claims,
     acked |-> acked, written |-> written]

\* ValidateToken, first half: the read of blacklist:<token>
ValidateGet(p, tok) ==
    /\ pc[p] = "idle"
    /\ pc' = [pc EXCEPT ![p] = "got"]
    /\ rt' = [rt EXCEPT ![p] = tok]
    /\ resp' = [resp EXCEPT ![p] =
                  InFlight(tok, RedisGet(tok), tok \in revokedOk, tok \in DOMAIN redis)]
    /\ UNCHANGED <<usersTable, now, redis, redisUp, issuedFor, last, revokedOk>>

\* ValidateToken, second half: parse, verify, compare the kind, return
ValidateReturn(p) ==
    /\ pc[p] = "got"
    /\ pc' = [pc EXCEPT ![p] = "idle"]
    /\ rt' = [rt EXCEPT ![p] = NoToken]
    /\ resp' = [resp EXCEPT ![p] = NoResp]
    /\ last' = Done("ValidateToken", rt[p],
                    ValidateAfterGet(resp[p].err, rt[p], TokenTypeAccess).err,
                    ValidateAfterGet(resp[p].err, rt[p], TokenTypeAccess).claims,
                    resp[p].acked, resp[p].written)
    /\ UNCHANGED <<usersTable, now, redis, redisUp, issuedFor, revokedOk>>

\* InvalidateToken up to and including redisClient.Set: the store applies the write
RevokeSet(p, tok) ==
    /\ pc[p] = "idle"
    /\ pc' = [pc EXCEPT ![p] = "set"]
    /\ rt' = [rt EXCEPT ![p] = tok]
    /\ resp' = [resp EXCEPT ![p] =
                  InFlight(tok, InvalidateToken(tok).err, timeRemaining(tok) > 0, FALSE)]
    /\ redis' = InvalidateToken(tok).redis
    /\ UNCHANGED <<usersTable, now, redisUp, issuedFor, last, revokedOk>>

\* InvalidateToken returns: the caller has the acknowledgement
RevokeReturn(p) ==
    /\ pc[p] = "set"
    /\ pc' = [pc EXCEPT ![p] = "idle"]
    /\ rt' = [rt EXCEPT ![p] = NoToken]
    /\ resp' = [resp EXCEPT ![p] = NoResp]
    /\ revokedOk' = IF resp[p].err = "nil" /\ resp[p].acked
                    THEN revokedOk \cup {rt[p]} ELSE revokedOk
    /\ last' = Done("InvalidateToken", rt[p], resp[p].err, NoClaims, FALSE, FALSE)
    /\ UNCHANGED <<usersTable, now, redis, redisUp, issuedFor>>

\* a caller that validates (p1) beside a caller that revokes (p2)
NextConc ==
    \/ \E u \in Users : CallGenerateToken(u)
    \/ \E tok \in Presentable : ValidateGet("p1", tok)
    \/ ValidateReturn("p1")
    \/ \E tok \in Presentable : RevokeSet("p2", tok)
    \/ RevokeReturn("p2")
    \/ Tick

SpecConc == Init /\ [][NextConc]_vars

\* ------------------------------------------------- denylist over time
\* GenerateToken for a token whose expires-at the clock of the run reaches
IssueAccess(u) ==
    /\ NewNumericDate(now + accessTokenDuration) <= MaxTime
    /\ CallGenerateToken(u)

\* GenerateRefreshToken for a token whose expires-at the clock of the run reaches
IssueRefresh(u) ==
    /\ NewNumericDate(now + refreshTokenDuration) <= MaxTime
    /\ CallGenerateRefreshToken(u)

NextLive ==
    \/ \E u \in Users : IssueAccess(u)
    \/ \E u \in Users : IssueRefresh(u)
    \/ \E tok \in Presentable : CallInvalidateToken(tok)
    \/ Tick
    \/ \E tok \in AllTokens : ExpireKey(tok)

\* time passes, and Redis removes every key whose TTL is over
SpecLive ==
    /\ Init
    /\ [][NextLive]_vars
    /\ WF_vars(Tick)
    /\ \A tok \in AllTokens : WF_vars(ExpireKey(tok))

\* ------------------------------------------ the TokenManagers of src
\* NewTokenManager(secret, accessDuration, refreshDuration)
NewTokenManager(secret, accessDuration, refreshDuration) ==
    [secretKey |-> secret, accessTokenDuration |-> accessDuration,
     refreshTokenDuration |-> refreshDuration]

\* the managers a configuration can construct: durations of whole seconds
TokenManagers ==
    { NewTokenManager(secretKey, a * TimePrecision, r * TimePrecision) :
         a \in 1..MaxConfigSeconds, r \in 1..MaxConfigSeconds }

\* TokenManager.GenerateToken of the manager with Redis, for a manager m
ManagerGenerateToken(m, userID, email, t) ==
    SignedString("HS256",
                 [user_id |-> userID, email |-> email, token_type |-> TokenTypeAccess,
                  exp |-> NewNumericDate(t + m.accessTokenDuration),
                  iat |-> NewNumericDate(t)],
                 m.secretKey)

\* TokenManager.GenerateRefreshToken of the manager with Redis, for a manager m
ManagerGenerateRefreshToken(m, userID, email, t) ==
    SignedString("HS256",
                 [user_id |-> userID, email |-> email, token_type |-> TokenTypeRefresh,
                  exp |-> NewNumericDate(t + m.refreshTokenDuration),
                  iat |-> NewNumericDate(t)],
                 m.secretKey)

\* TokenManager.GenerateToken of internal/auth/jwt.go: its claims have no
\* token_type, and its expires-at is computed from refreshTokenDuration
JwtGoGenerateToken(m, userID, email, t) ==
    SignedString("HS256",
                 [user_id |-> userID, email |-> email, token_type |-> "",
                  exp |-> NewNumericDate(t + m.refreshTokenDuration),
                  iat |-> NewNumericDate(t)],
                 m.secretKey)

\* TokenManager.GenerateRefreshToken of internal/auth/jwt.go
JwtGoGenerateRefreshToken(m, userID, email, t) ==
    SignedString("HS256",
                 [user_id |-> userID, email |-> email, token_type |-> "",
                  exp |-> NewNumericDate(t + m.refreshTokenDuration),
                  iat |-> NewNumericDate(t)],
                 m.secretKey)

\* a token a manager has issued: which implementation, which manager, which kind
Issued(impl, m, kind, tok) ==
    [op |-> "Generate", tok |-> tok, err |-> "nil", claims |-> NoClaims,
     impl |-> impl, m |-> m, kind |-> kind]

\* a manager of unnamed/part_003 issues a token
Part003Issue(m, u, kind) ==
    /\ last' = Issued("part_003", m, kind,
                      IF kind = TokenTypeAccess
                      THEN ManagerGenerateToken(m, u.id, u.email, now)
                      ELSE ManagerGenerateRefreshToken(m, u.id, u.email, now))
    /\ UNCHANGED <<usersTable, now, redis, redisUp, issuedFor, pc, rt, resp, revokedOk>>

\* a manager of internal/auth/jwt.go issues a token
JwtGoIssue(m, u, kind) ==
    /\ last' = Issued("jwt.go", m, kind,
                      IF kind = TokenTypeAccess
                      THEN JwtGoGenerateToken(m, u.id, u.email, now)
                      ELSE JwtGoGenerateRefreshToken(m, u.id, u.email, now))
    /\ UNCHANGED <<usersTable, now, redis, redisUp, issuedFor, pc, rt, resp, revokedOk>>

NextIssue ==
    \/ \E m \in TokenManagers : \E u \in Users : \E kind \in Kinds : Part003Issue(m, u, kind)
    \/ \E m \in TokenManagers : \E u \in Users : \E kind \in Kinds : JwtGoIssue(m, u, kind)
    \/ Tick

SpecIssue == Init /\ [][NextIssue]_vars

\* ------------------------------------------------------------ user CRUD
CodeAlreadyExists == "AlreadyExists"
CodeNotFound == "NotFound"

\* error values, as the words of err.Error()
ErrUserNotFound == <<"user", "not", "found">>
ErrEmailDuplicate == <<"email", "already", "exists">>
NoError == << >>

\* a failure of the database other than a constraint violation, wrapped by
\* fmt.Errorf("... failed: %w", err)
WrappedDbError == <<"failed:", "connection", "refused">>

\* strings.Contains(errMsg, sub) for a sub that is one word
Contains(errMsg, sub) == \E i \in DOMAIN errMsg : errMsg[i] = sub

errDuplicateKey == "duplicate"
errUniqueViolation == "unique"

\* isDuplicateError
isDuplicateError(err) ==
    IF err = NoError THEN FALSE
    ELSE Contains(err, errDuplicateKey) \/ Contains(err, errUniqueViolation)

\* common.IsValidEmail: the address has an "@" and a "."
IsValidEmail(email) == email \in {"a@x.io", "b@x.io", "c@x.io"}

\* pb.User of a row
PbUser(id, row) == [id |-> id, name |-> row.name, email |-> row.email]

NoPbUser == [id |-> 0, name |-> "", email |-> ""]

\* the unique index on users.email rejects the row (SQLSTATE 23505)
EmailTaken(email, exceptID) ==
    \E id \in DOMAIN usersTable : id # exceptID /\ usersTable[id].email = email

\* the id the serial column gives the next row
NextID == Cardinality(DOMAIN usersTable) + 1

RepoResult(err, user, table) == [err |-> err, user |-> user, table |-> table]

\* userPostgresRepo.Create / CreateWithPassword: INSERT ... RETURNING
RepoCreate(name, email, passwordHash, dbErr) ==
    IF dbErr THEN RepoResult(WrappedDbError, NoPbUser, usersTable)
    ELSE IF EmailTaken(email, 0) THEN RepoResult(ErrEmailDuplicate, NoPbUser, usersTable)
    ELSE LET row == [name |-> name, email |-> email, password_hash |-> passwordHash]
         IN RepoResult(NoError, PbUser(NextID, row),
                       [id \in DOMAIN usersTable \cup {NextID} |->
                           IF id = NextID THEN row ELSE usersTable[id]])

\* userPostgresRepo.Update: UPDATE users SET name, email WHERE id
RepoUpdate(id, name, email, dbErr) ==
    IF dbErr THEN RepoResult(WrappedDbError, NoPbUser, usersTable)
    ELSE IF id \notin DOMAIN usersTable THEN RepoResult(ErrUserNotFound, NoPbUser, usersTable)
    ELSE IF EmailTaken(email, id) THEN RepoResult(ErrEmailDuplicate, NoPbUser, usersTable)
    ELSE LET row == [usersTable[id] EXCEPT !.name = name, !.email = email]
         IN RepoResult(NoError, PbUser(id, row), [usersTable EXCEPT ![id] = row])

\* a nil *string
Nil == [set |-> FALSE, v |-> ""]
\* &s
Ptr(s) == [set |-> TRUE, v |-> s]

\* userPostgresRepo.PartialUpdate: UPDATE users SET <the fields given> WHERE id
RepoPartialUpdate(id, name, email, passwordHash, dbErr) ==
    IF dbErr THEN RepoResult(WrappedDbError, NoPbUser, usersTable)
    ELSE IF id \notin DOMAIN usersTable THEN RepoResult(ErrUserNotFound, NoPbUser, usersTable)
    ELSE IF ~name.set /\ ~email.set /\ ~passwordHash.set
    THEN RepoResult(<<"no", "fields", "to", "update">>, NoPbUser, usersTable)
    ELSE IF email.set /\ EmailTaken(email.v, id)
    THEN RepoResult(ErrEmailDuplicate, NoPbUser, usersTable)
    ELSE LET row == [name |-> IF name.set THEN name.v ELSE usersTable[id].name,
                     email |-> IF email.set THEN email.v ELSE usersTable[id].email,
                     password_hash |-> IF passwordHash.set THEN passwordHash.v
                                       ELSE usersTable[id].password_hash]
         IN RepoResult(NoError, PbUser(id, row), [usersTable EXCEPT ![id] = row])

UserResp(code, message, user) == [code |-> code, message |-> message, user |-> user]

\* userServiceServer.CreateUser: the response, for what the repository returned
CreateUserResponse(name, email, password, dbErr) ==
    LET hash == IF password # "" THEN HashPassword(password) ELSE <<>>
        r == RepoCreate(name, email, hash, dbErr)
    IN
    IF name = "" THEN UserResp(CodeInvalidArgument, "name is required", NoPbUser)
    ELSE IF email = "" THEN UserResp(CodeInvalidArgument, "email is required", NoPbUser)
    ELSE IF ~IsValidEmail(email)
    THEN UserResp(CodeInvalidArgument, "invalid email format", NoPbUser)
    ELSE IF r.err # NoError /\ isDuplicateError(r.err)
    THEN UserResp(CodeAlreadyExists, "email is already registered", NoPbUser)
    ELSE IF r.err # NoError /\ password # ""
    THEN UserResp(CodeInternal, "email is already registered", NoPbUser)
    ELSE IF r.err # NoError
    THEN UserResp(CodeInternal, "failed to create user", NoPbUser)
    ELSE UserResp(CodeSuccess, "success", r.user)

\* the request reached the repository
CreateUserValid(name, email) == name # "" /\ email # "" /\ IsValidEmail(email)

\* the CreateUser RPC
CreateUser(name, email, password, dbErr) ==
    LET hash == IF password # "" THEN HashPassword(password) ELSE <<>>
        r == RepoCreate(name, email, hash, dbErr)
    IN
    /\ (CreateUserValid(name, email) /\ r.err = NoError)
          => Cardinality(DOMAIN usersTable) < MaxUsers
    /\ usersTable' = IF CreateUserValid(name, email) THEN r.table ELSE usersTable
    /\ last' = Rpc("RPC.CreateUser", NoToken,
                   IF CreateUserValid(name, email) THEN r.err ELSE NoError, NoClaims,
                   [name |-> name, email |-> email, password |-> password, dbErr |-> dbErr],
                   CreateUserResponse(name, email, password, dbErr))
    /\ UNCHANGED <<now, redis, redisUp, issuedFor, pc, rt, resp, revokedOk>>

\* the request of userServiceServer.UpdateUser reached the repository
UpdateUserValid(id, name, email) ==
    id >= 0 /\ name # "" /\ email # "" /\ IsValidEmail(email)

\* userServiceServer.UpdateUser of internal/server/user_server.go: the response
UpdateUserResponse(id, name, email, dbErr) ==
    LET r == RepoUpdate(id, name, email, dbErr) IN
    IF id < 0 THEN UserResp(CodeInvalidArgument, "user ID must be positive", NoPbUser)
    ELSE IF name = "" THEN UserResp(CodeInvalidArgument, "name is required", NoPbUser)
    ELSE IF email = "" THEN UserResp(CodeInvalidArgument, "invalid email format", NoPbUser)
    ELSE IF ~IsValidEmail(email)
    THEN UserResp(CodeInvalidArgument, "invalid email format", NoPbUser)
    ELSE IF r.err = ErrUserNotFound THEN UserResp(CodeNotFound, "user not found", NoPbUser)
    ELSE IF r.err # NoError /\ isDuplicateError(r.err)
    THEN UserResp(CodeAlreadyExists, "email is already registered", NoPbUser)
    ELSE IF r.err # NoError THEN UserResp(CodeInternal, "failed to update user", NoPbUser)
    ELSE UserResp(CodeSuccess, "success", r.user)

\* the UpdateUser RPC of internal/server/user_server.go; req.Password is not read
UpdateUser(id, name, email, password, dbErr) ==
    /\ usersTable' = IF UpdateUserValid(id, name, email)
                     THEN RepoUpdate(id, name, email, dbErr).table ELSE usersTable
    /\ last' = Rpc("RPC.UpdateUser", NoToken,
                   IF UpdateUserValid(id, name, email)
                   THEN RepoUpdate(id, name, email, dbErr).err ELSE NoError, NoClaims,
                   [impl |-> "user_server.go", id |-> id, name |-> name, email |-> email,
                    password |-> password, dbErr |-> dbErr],
                   UpdateUserResponse(id, name, email, dbErr))
    /\ UNCHANGED <<now, redis, redisUp, issuedFor, pc, rt, resp, revokedOk>>

\* the request of the partial UpdateUser reached the repository
PartialUpdateValid(id, name, email, password) ==
    /\ id > 0
    /\ ~(name = "" /\ email = "" /\ password = "")
    /\ email # "" => IsValidEmail(email)

\* the pointers the partial UpdateUser hands to PartialUpdate
PartialArgs(name, email, password) ==
    [name |-> IF name # "" THEN Ptr(name) ELSE Nil,
     email |-> IF email # "" THEN Ptr(email) ELSE Nil,
     passwordHash |-> IF password # "" THEN Ptr(HashPassword(password)) ELSE Nil]

\* userServiceServer.UpdateUser of unnamed/part_009 (partial update): the response
PartialUpdateUserResponse(id, name, email, password, dbErr) ==
    LET a == PartialArgs(name, email, password)
        r == RepoPartialUpdate(id, a.name, a.email, a.passwordHash, dbErr)
    IN
    IF id <= 0 THEN UserResp(CodeInvalidArgument, "user ID must be positive", NoPbUser)
    ELSE IF name = "" /\ email = "" /\ password = ""
    THEN UserResp(CodeInvalidArgument, "at least one field must be provided for update",
                  NoPbUser)
    ELSE IF email # "" /\ ~IsValidEmail(email)
    THEN UserResp(CodeInvalidArgument, "invalid email format", NoPbUser)
    ELSE IF r.err = ErrUserNotFound THEN UserResp(CodeNotFound, "user not found", NoPbUser)
    ELSE IF r.err = ErrEmailDuplicate
    THEN UserResp(CodeAlreadyExists, "email is already registered", NoPbUser)
    ELSE IF r.err # NoError THEN UserResp(CodeInternal, "failed to update user", NoPbUser)
    ELSE UserResp(CodeSuccess, "User updated successfully", r.user)

\* the UpdateUser RPC of unnamed/part_009
PartialUpdateUser(id, name, email, password, dbErr) ==
    LET a == PartialArgs(name, email, password)
        r == RepoPartialUpdate(id, a.name, a.email, a.passwordHash, dbErr)
    IN
    /\ usersTable' = IF PartialUpdateValid(id, name, email, password)
                     THEN r.table ELSE usersTable
    /\ last' = Rpc("RPC.UpdateUser", NoToken,
                   IF PartialUpdateValid(id, name, email, password) THEN r.err ELSE NoError,
                   NoClaims,
                   [impl |-> "part_009", id |-> id, name |-> name, email |-> email,
                    password |-> password, dbErr |-> dbErr],
                   PartialUpdateUserResponse(id, name, email, password, dbErr))
    /\ UNCHANGED <<now, redis, redisUp, issuedFor, pc, rt, resp, revokedOk>>

\* what the fields of a CreateUser or UpdateUser request can carry
ReqNames == {"", "Cy"}
ReqEmails == {"", "a@x.io", "c@x.io", "not-an-address"}
ReqPasswords == {"", "Secret3c"}
ReqIDs == 1..MaxUsers

NextUsers ==
    \/ \E name \in ReqNames : \E email \in ReqEmails : \E password \in ReqPasswords :
          \E dbErr \in BOOLEAN : CreateUser(name, email, password, dbErr)
    \/ \E id \in ReqIDs : \E name \in ReqNames : \E email \in ReqEmails :
          UpdateUser(id, name, email, "", FALSE)
    \/ \E id \in ReqIDs : \E name \in ReqNames : \E email \in ReqEmails :
          \E password \in ReqPasswords : PartialUpdateUser(id, name, email, password, FALSE)

SpecUsers == Init /\ [][NextUsers]_vars

\* ------------------------------------------------------------------ claims

\* C1: once InvalidateToken has returned nil for a token that was not yet
\* expired, ValidateToken and ValidateRefreshToken both fail with "token has
\* been revoked" for that token in every later state in which the token has
\* not reached its expires-at, and every such call that was made returned it.
C1_RevokedNeverValidates ==
    /\ \A tok \in revokedOk :
          ~Expired(tok) =>
             /\ ValidateToken(tok).err = ErrRevoked
             /\ ValidateRefreshToken(tok).err = ErrRevoked
    /\ (/\ last.op \in {"ValidateToken", "ValidateRefreshToken"}
        /\ last.tok \in revokedOk
        /\ ~Expired(last.tok))
       => last.err = ErrRevoked

\* C1 witness: a token the manager issued was revoked, is not yet expired,
\* and a ValidateToken call on it has returned the revoked error.
C1_Witness ==
    /\ last.op = "ValidateToken"
    /\ last.tok \in issued
    /\ last.tok \in revokedOk
    /\ ~Expired(last.tok)
    /\ last.err = ErrRevoked

\* C2: rejection is terminal: in every step (a call, a clock tick, the
\* expiry of a denylist key) a token that is on the denylist or past its
\* expires-at is still one of the two afterwards, and neither ValidateToken
\* nor ValidateRefreshToken accepts it afterwards.
C2_RejectionIsTerminal ==
    [][\A tok \in Presentable :
          Terminal(tok) =>
             /\ Terminal(tok)'
             /\ ValidateToken(tok)'.err # "nil"
             /\ ValidateRefreshToken(tok)'.err # "nil"]_vars

\* C2 witness: an issued refresh token was revoked, its denylist key has
\* since been dropped by its TTL, and ValidateRefreshToken rejected it as
\* expired.
C2_Witness ==
    /\ last.op = "ValidateRefreshToken"
    /\ last.tok \in issued
    /\ issuedFor[last.tok].kind = TokenTypeRefresh
    /\ last.tok \in revokedOk
    /\ last.tok \notin DOMAIN redis
    /\ last.err = ErrExpired

\* C3 as claimed: right after a RefreshToken request has returned a new
\* pair for the old refresh token r (nothing but the clock has moved since),
\* ValidateRefreshToken(r) fails as revoked while r is unexpired, and
\* ValidateRefreshToken of the new refresh token succeeds while that one is
\* unexpired.
C3_Original ==
    \A p \in Procs :
        (/\ last.op = "RefreshToken"
         /\ last.tok = resp[p].old
         /\ pc[p] = "idle"
         /\ resp[p].err = "nil")
        => /\ ~Expired(resp[p].old) =>
                 ValidateRefreshToken(resp[p].old).err = ErrRevoked
           /\ ~Expired(resp[p].refresh) =>
                 ValidateRefreshToken(resp[p].refresh).err = "nil"

\* C4 as claimed: no two RefreshToken requests that presented the same
\* refresh token have both returned a new pair.
C4_Original ==
    \A p, q \in Procs :
        (p # q /\ resp[p].err = "nil" /\ resp[q].err = "nil")
        => resp[p].old # resp[q].old

\* C5: kind discrimination: ValidateToken returns no claims for a token that
\* GenerateRefreshToken issued, and ValidateRefreshToken returns no claims
\* for a token that GenerateToken issued.
C5_KindDiscrimination ==
    /\ \A tok \in issued :
          /\ issuedFor[tok].kind = TokenTypeRefresh => ValidateToken(tok).err # "nil"
          /\ issuedFor[tok].kind = TokenTypeAccess => ValidateRefreshToken(tok).err # "nil"
    /\ (last.op = "ValidateToken" /\ last.tok \in issued
          /\ issuedFor[last.tok].kind = TokenTypeRefresh) => last.err # "nil"
    /\ (last.op = "ValidateRefreshToken" /\ last.tok \in issued
          /\ issuedFor[last.tok].kind = TokenTypeAccess) => last.err # "nil"

\* C5 witness: ValidateToken was called on a live, unrevoked refresh token
\* and refused it for its kind.
C5_Witness ==
    /\ last.op = "ValidateToken"
    /\ last.tok \in issued
    /\ issuedFor[last.tok].kind = TokenTypeRefresh
    /\ last.tok \notin revokedOk
    /\ ~Expired(last.tok)
    /\ last.err = ErrTokenType

C7_AccessRoundTrip ==
    /\ \A tok \in issued :
          (issuedFor[tok].kind = TokenTypeAccess /\ ~Terminal(tok)) =>
             /\ ValidateToken(tok).err = "nil"
             /\ ValidateToken(tok).claims.user_id = issuedFor[tok].user_id
             /\ ValidateToken(tok).claims.email = issuedFor[tok].email
             /\ ValidateToken(tok).claims.token_type = TokenTypeAccess
    /\ (last.op = "ValidateToken" /\ last.err = "nil") =>
          /\ last.tok \in issued
          /\ last.claims.user_id = issuedFor[last.tok].user_id
          /\ last.claims.email = issuedFor[last.tok].email
          /\ last.claims.token_type = TokenTypeAccess

\* C7 witness: ValidateToken returned claims for an access token issued for
\* the second user.
C7_Witness ==
    /\ last.op = "ValidateToken"
    /\ last.err = "nil"
    /\ last.tok \in issued
    /\ issuedFor[last.tok].user_id = 2
    /\ last.claims.email = "b@x.io"

\* C8: expiry: a token issued with duration d whose issued-at is iat fails
\* both validations with the expired error at every time later than iat + d,
\* revoked or not (iat is the issue time truncated to the second, so this
\* covers every time later than issue time + d).
C8_ExpiredAfterDuration ==
    /\ \A tok \in issued :
          now > tok.claims.iat + DurationOf(issuedFor[tok].kind) =>
             /\ ValidateToken(tok).err = ErrExpired
             /\ ValidateRefreshToken(tok).err = ErrExpired
    /\ \A tok \in issued :
          tok.claims.exp <= tok.claims.iat + DurationOf(issuedFor[tok].kind)

\* C8 witness: a refresh token that was never revoked was validated later
\* than its issued-at plus the refresh duration and was reported expired.
C8_Witness ==
    /\ last.op = "ValidateRefreshToken"
    /\ last.tok \in issued
    /\ issuedFor[last.tok].kind = TokenTypeRefresh
    /\ last.tok \notin revokedOk
    /\ now > last.tok.claims.iat + refreshTokenDuration
    /\ last.err = ErrExpired

\* C9: every denylist entry ends exactly at its token's expires-at (its TTL
\* was expires-at minus the time of the revocation), so none is scheduled to
\* outlive its token.
C9_EntryEndsAtExpiry ==
    \A tok \in DOMAIN redis : redis[tok] = tok.claims.exp

\* C9 witness: InvalidateToken has written an entry for an issued refresh
\* token part of the way through its life.
C9_Witness ==
    /\ last.op = "InvalidateToken"
    /\ last.err = "nil"
    /\ last.tok \in issued
    /\ issuedFor[last.tok].kind = TokenTypeRefresh
    /\ last.tok \in DOMAIN redis
    /\ now > last.tok.claims.iat + 1
    /\ now < last.tok.claims.exp

\* C10: InvalidateToken on a token whose remaining lifetime is zero or
\* negative returns nil and leaves the denylist as it was, and no step ever
\* writes an entry for a token at or after its expires-at.
C10_ExpiredRevokeIsNoOp ==
    [][\A tok \in Presentable :
          /\ (/\ timeRemaining(tok) <= 0
              /\ last'.op = "InvalidateToken"
              /\ last'.tok = tok
              /\ CallInvalidateToken(tok))
                => (redis' = redis /\ last'.err = "nil")
          /\ (Expired(tok) /\ tok \in DOMAIN redis')
                => (tok \in DOMAIN redis /\ redis'[tok] = redis[tok])]_vars

\* C10 witness: InvalidateToken returned nil for an issued token that was
\* never revoked before its expiry and that has no denylist entry.
C10_Witness ==
    /\ last.op = "InvalidateToken"
    /\ last.err = "nil"
    /\ last.tok \in issued
    /\ last.tok \notin revokedOk
    /\ last.tok \notin DOMAIN redis
    /\ Expired(last.tok)

\* C11: a successful Login returns a pair whose access token validates as
\* ACCESS, whose refresh token validates as REFRESH and fails as ACCESS with
\* the token-type error, and both carry the id and email of the user record
\* (read while the store answers and the access token has not expired).
C11_Original ==
    (/\ last.op = "RPC.Login"
     /\ last.out.code = CodeSuccess
     /\ redisUp
     /\ ~Expired(last.out.access_token))
    => /\ ValidateToken(last.out.access_token).err = "nil"
       /\ ValidateToken(last.out.access_token).claims.user_id = last.out.user.id
       /\ ValidateToken(last.out.access_token).claims.email = last.out.user.email
       /\ ValidateRefreshToken(last.out.refresh_token).err = "nil"
       /\ ValidateRefreshToken(last.out.refresh_token).claims.user_id = last.out.user.id
       /\ ValidateRefreshToken(last.out.refresh_token).claims.email = last.out.user.email
       /\ ValidateToken(last.out.refresh_token).err = ErrTokenType

\* C12: after a Logout that carried an access token and a refresh token has
\* returned success, the access token does not validate as ACCESS and the
\* refresh token does not validate as REFRESH.
C12_Original ==
    (/\ last.op = "RPC.Logout"
     /\ last.req.refresh_token # NoToken
     /\ last.out.success)
    => /\ ValidateToken(last.req.token).err # "nil"
       /\ ValidateRefreshToken(last.req.refresh_token).err # "nil"

\* C13: a Logout that carries only an access token leaves every other token
\* as it was: for each refresh token of the pair (each token other than the
\* one presented) ValidateRefreshToken returns after the Logout what it
\* returned before it; and when the Logout reports success the presented
\* token no longer validates.
C13_LogoutAccessOnly ==
    [][\A tok \in RpcTokens :
          (/\ last'.op = "RPC.Logout"
           /\ last'.tok = tok
           /\ Logout(tok, NoToken))
          => /\ \A r \in Presentable \ {tok} :
                   ValidateRefreshToken(r)' = ValidateRefreshToken(r)
             /\ last'.out.success =>
                   (ValidateToken(tok).err # "nil")']_vars

\* C13 witness: a Logout with only the access token of a pair succeeded, the
\* access token is reported revoked and the pair's refresh token still
\* validates as REFRESH.
C13_Witness ==
    /\ last.op = "RPC.Logout"
    /\ last.req.refresh_token = NoToken
    /\ last.out.success
    /\ last.tok \in issued
    /\ issuedFor[last.tok].kind = TokenTypeAccess
    /\ ValidateToken(last.tok).err = ErrRevoked
    /\ \E r \in issued :
          /\ issuedFor[r].kind = TokenTypeRefresh
          /\ issuedFor[r].user_id = issuedFor[last.tok].user_id
          /\ r.claims.iat = last.tok.claims.iat
          /\ ValidateRefreshToken(r).err = "nil"

\* C14: the denylist is read before the token is parsed: a token string with
\* a live denylist entry fails ValidateToken and ValidateRefreshToken with
\* "token has been revoked" whether or not its signature verifies and
\* whatever its kind, and no ValidateToken RPC that got as far as the parser
\* (it returned claims or a parse, signature, expiry or kind error) was made
\* on a token with a live entry.
C14_DenylistBeforeSignature ==
    /\ \A tok \in RpcTokens :
          RedisGet(tok) = "found" =>
             \A kind \in Kinds : ValidateKind(tok, kind) = Result(ErrRevoked, NoClaims)
    /\ (/\ last.op = "RPC.ValidateToken"
        /\ last.tok # NoToken
        /\ last.err \notin {ErrRevoked, "redis error"})
       => RedisGet(last.tok) # "found"

\* C14 witness: a token whose signature does not verify has a live denylist
\* entry, and the ValidateToken RPC on it met the revoked error.
C14_Witness ==
    /\ last.op = "RPC.ValidateToken"
    /\ last.tok \in ForgedTokens
    /\ ParseWithClaims(last.tok) = ErrSignature
    /\ RedisGet(last.tok) = "found"
    /\ last.err = ErrRevoked

\* C15: while the denylist read fails with an error other than redis.Nil,
\* ValidateToken and ValidateRefreshToken return an error and no claims for
\* every token, a correctly signed, unexpired token of the expected kind
\* included, and a ValidateToken RPC that met the read error answered
\* valid = false without subject fields.
C15_ValidateFailClosed ==
    /\ ~redisUp =>
          \A tok \in RpcTokens \ {NoToken} : \A kind \in Kinds :
             /\ ValidateKind(tok, kind).err # "nil"
             /\ ValidateKind(tok, kind).claims = NoClaims
    /\ (last.op = "RPC.ValidateToken" /\ last.err = "redis error")
       => /\ last.claims = NoClaims
          /\ ~last.out.valid
          /\ last.out.user_id = 0
          /\ last.out.email = ""

\* C15 witness: the store is down and a ValidateToken RPC on an issued access
\* token that is correctly signed, unexpired and not on the denylist has
\* failed on the read error.
C15_Witness ==
    /\ ~redisUp
    /\ last.op = "RPC.ValidateToken"
    /\ last.tok \in issued
    /\ issuedFor[last.tok].kind = TokenTypeAccess
    /\ ParseWithClaims(last.tok) = "nil"
    /\ last.tok \notin DOMAIN redis
    /\ last.err = "redis error"
    /\ ~last.out.valid

\* C16: while writes to the store fail, InvalidateToken of a decodable token
\* that has not reached its expires-at returns an error and writes nothing,
\* and a Logout whose InvalidateToken returned an error answers with the
\* internal code, "failed to logout" and the success flag unset.
C16_RevokeWriteFailure ==
    /\ ~redisUp =>
          \A tok \in Presentable :
             timeRemaining(tok) > 0 =>
                /\ InvalidateToken(tok).err # "nil"
                /\ InvalidateToken(tok).redis = redis
                /\ LogoutResponse(tok, NoToken) =
                      LogoutResp(CodeInternal, "failed to logout", FALSE)
    /\ (last.op = "RPC.Logout" /\ last.tok # NoToken /\ last.err # "nil")
       => /\ last.out.code = CodeInternal
          /\ ~last.out.success

\* C16 witness: the store is down, and a Logout with an issued, unexpired
\* token has answered with the internal code and written no denylist entry.
C16_Witness ==
    /\ ~redisUp
    /\ last.op = "RPC.Logout"
    /\ last.tok \in issued
    /\ timeRemaining(last.tok) > 0
    /\ last.err = "redis error"
    /\ last.out.code = CodeInternal
    /\ ~last.out.success
    /\ last.tok \notin DOMAIN redis

C19_Original ==
    (/\ last.op = "RPC.ValidateToken"
     /\ last.err = "redis error")
    => /\ last.out.code = CodeInternal
       /\ last.out.code # CodeUnauthorized
       /\ last.out.message # "invalid or expired token"

\* the errors of ValidateToken that are about the token itself
TokenFailures == {ErrRevoked, ErrSignature, "token is malformed", ErrTokenType, ErrExpired}

\* C20: the ValidateToken RPC does not reveal which check failed: any two
\* non-empty tokens that ValidateToken rejects for token reasons (revoked, bad
\* signature, malformed, wrong kind, expired) get the same response, the
\* unauthorized code with "invalid or expired token", valid = false and no
\* subject fields, and every RPC that failed that way returned it.
C20_ValidateHidesReason ==
    /\ \A t1, t2 \in RpcTokens \ {NoToken} :
          (/\ ValidateToken(t1).err \in TokenFailures
           /\ ValidateToken(t2).err \in TokenFailures)
          => /\ ValidateTokenResponse(t1) = ValidateTokenResponse(t2)
             /\ ValidateTokenResponse(t1) =
                   ValidateResp(CodeUnauthorized, "invalid or expired token", FALSE, 0, "")
    /\ (last.op = "RPC.ValidateToken" /\ last.err \in TokenFailures)
       => last.out = ValidateResp(CodeUnauthorized, "invalid or expired token", FALSE, 0, "")

\* C20 witness: a ValidateToken RPC on a revoked token has answered, and in
\* the same state an expired token, a token with a bad signature and a
\* malformed string are rejected for their own reasons with that response.
C20_Witness ==
    /\ last.op = "RPC.ValidateToken"
    /\ last.err = ErrRevoked
    /\ redisUp
    /\ \E t \in issued :
          /\ ValidateToken(t).err = ErrExpired
          /\ ValidateTokenResponse(t) = last.out
    /\ \E t \in ForgedTokens :
          /\ ValidateToken(t).err = ErrSignature
          /\ ValidateTokenResponse(t) = last.out
    /\ ValidateToken(GarbageToken).err = "token is malformed"
    /\ ValidateTokenResponse(GarbageToken) = last.out

\* C21 as claimed: every ValidateToken whose store read came after a
\* revocation of the token had been acknowledged returned the revoked error.
C21_Original ==
    (last.op = "ValidateToken" /\ last.acked) => last.err = ErrRevoked

\* C21: with concurrent callers, a ValidateToken whose store read came after
\* an acknowledged revocation of the token fails: the read finds the key and
\* the call returns the revoked error when the read is made before the
\* token's expires-at; when it is made later the key's TTL is over and the
\* call fails in the parser (the expired error for a token the manager
\* issued); a ValidateToken that returned claims read the store before the
\* key was written.
C21_VisibleAfterAck ==
    /\ \A p \in Procs :
          (pc[p] = "got" /\ resp[p].acked) =>
             \/ resp[p].err = "found"
             \/ resp[p].err = "nil" /\ Expired(rt[p])
    /\ (last.op = "ValidateToken" /\ last.acked)
       => /\ last.err # "nil"
          /\ last.tok \in issued => last.err \in {ErrRevoked, ErrExpired}
    /\ (last.op = "ValidateToken" /\ last.acked /\ ~Expired(last.tok))
       => last.err = ErrRevoked
    /\ (last.op = "ValidateToken" /\ last.err = "nil") => ~last.written

\* C21 witness: a ValidateToken has returned claims for an issued token whose
\* revocation has since been acknowledged (its read came before the write),
\* while another ValidateToken of the same token, still unexpired, has read
\* the store after the acknowledgement and found the key.
C21_Witness ==
    /\ last.op = "ValidateToken"
    /\ last.err = "nil"
    /\ last.tok \in revokedOk
    /\ ~Expired(last.tok)
    /\ \E p \in Procs :
          /\ pc[p] = "got"
          /\ rt[p] = last.tok
          /\ resp[p].acked
          /\ resp[p].err = "found"

\* C22: the denylist forgets by TTL alone: every key is scheduled to end no
\* later than its token's expires-at, every key that is in the store is
\* eventually not in it, and the only step that ever removes a key is the
\* store dropping a key whose TTL is over (the application deletes nothing).
C22_DenylistForgets ==
    /\ [](\A tok \in DOMAIN redis : redis[tok] <= tok.claims.exp)
    /\ \A tok \in AllTokens : (tok \in DOMAIN redis) ~> (tok \notin DOMAIN redis)
    /\ [][\A tok \in DOMAIN redis :
             tok \notin DOMAIN redis' =>
                (redis[tok] <= now /\ ExpireKey(tok))]_vars

\* C22 witness: a token the manager issued was revoked before its expiry,
\* its expires-at has passed and its key is no longer in the store.
C22_Witness ==
    \E tok \in revokedOk :
        /\ tok \in issued
        /\ Expired(tok)
        /\ tok \notin DOMAIN redis

\* C23: for both TokenManager implementations, an access token's expires-at
\* is its issued-at plus the manager's access-token duration, whatever the
\* manager's refresh-token duration, and a refresh token's expires-at is its
\* issued-at plus the manager's refresh-token duration.
C23_Original ==
    last.op = "Generate" =>
       /\ last.kind = TokenTypeAccess =>
             last.tok.claims.exp = last.tok.claims.iat + last.m.accessTokenDuration
       /\ last.kind = TokenTypeRefresh =>
             last.tok.claims.exp = last.tok.claims.iat + last.m.refreshTokenDuration

\* C24: whenever the repository answered a CreateUser with ErrEmailDuplicate,
\* on the path with a password or on the path without one, the response code
\* is AlreadyExists.
C24_Original ==
    (last.op = "RPC.CreateUser" /\ last.err = ErrEmailDuplicate)
    => last.out.code = CodeAlreadyExists

\* C25: UpdateUser is a partial update: a request for an existing user that
\* provides some of name, email and password and leaves others empty (the
\* email, when provided, being valid and not another user's) is answered with
\* success, and every field it left empty is the same in the stored row
\* before and after.
C25_Original ==
    [][(/\ last'.op = "RPC.UpdateUser"
        /\ last'.req.id \in DOMAIN usersTable
        /\ "" \in {last'.req.name, last'.req.email, last'.req.password}
        /\ ~(last'.req.name = "" /\ last'.req.email = "" /\ last'.req.password = "")
        /\ last'.req.email # "" =>
              (IsValidEmail(last'.req.email) /\ ~EmailTaken(last'.req.email, last'.req.id)))
       => /\ last'.out.code = CodeSuccess
          /\ last'.req.name = "" =>
                usersTable'[last'.req.id].name = usersTable[last'.req.id].name
          /\ last'.req.email = "" =>
                usersTable'[last'.req.id].email = usersTable[last'.req.id].email
          /\ last'.req.password = "" =>
                usersTable'[last'.req.id].password_hash =
                   usersTable[last'.req.id].password_hash]_vars

\* C26: every denylist entry is keyed by a token string the manager issued
\* and signed with its secret, and ends no later than the refresh-token
\* duration after that token was issued.
C26_Original ==
    \A tok \in DOMAIN redis :
        /\ tok \in issued
        /\ tok.sig = HMAC(secretKey, tok.alg, tok.claims)
        /\ redis[tok] <= tok.claims.iat + refreshTokenDuration

\* ------------------------------------------- Logout with any token string
\* the token strings a Logout request can carry, among them one without exp
LogoutTokens == RpcTokens \cup UnexpiringTokens

NextLogout ==
    \/ \E e \in LoginEmails : \E pw \in LoginPasswords : Login(e, pw, FALSE)
    \/ \E tok \in LogoutTokens : Logout(tok, NoToken)
    \/ Tick
    \/ RedisFail
    \/ RedisRecover

SpecLogout == Init /\ [][NextLogout]_vars

\* C27: a Logout never crashes: whatever token string it carries, its
\* InvalidateToken returns an error or nil and the request is answered with
\* one of the handler's three responses.
C27_Original ==
    last.op = "RPC.Logout" =>
        /\ last.err # Panic
        /\ last.out.code \in {CodeSuccess, CodeInternal, CodeInvalidArgument}

\* ------------------------------------------------- revocation, repeated
\* InvalidateToken, recorded with what the store answered for the token just
\* before the call
Revoke(tok) ==
    /\ redis' = InvalidateToken(tok).redis
    /\ revokedOk' = Revoked(tok)
    /\ last' = [op |-> "InvalidateToken", tok |-> tok, err |-> InvalidateToken(tok).err,
                claims |-> NoClaims, before |-> RedisGet(tok)]
    /\ UNCHANGED <<usersTable, now, redisUp, issuedFor, pc, rt, resp>>

NextRevoke ==
    \/ \E u \in Users : IssueAccess(u)
    \/ \E u \in Users : IssueRefresh(u)
    \/ \E tok \in Presentable : Revoke(tok)
    \/ Tick
    \/ \E tok \in AllTokens : ExpireKey(tok)

SpecRevoke == Init /\ [][NextRevoke]_vars

\* C28: InvalidateToken of a token that is already on the denylist and has
\* not reached its expires-at returns nil and leaves the store as it was: the
\* token is still answered as revoked and its entry still ends at its
\* expires-at.
C28_RevokeIdempotent ==
    /\ [](\A tok \in Presentable :
            (RedisGet(tok) = "found" /\ ~Expired(tok)) =>
               /\ InvalidateToken(tok).err = "nil"
               /\ InvalidateToken(tok).redis = redis
               /\ InvalidateToken(tok).redis[tok] = tok.claims.exp)
    /\ []((last.op = "InvalidateToken" /\ last.before = "found" /\ ~Expired(last.tok)) =>
            /\ last.err = "nil"
            /\ redis[last.tok] = last.tok.claims.exp
            /\ \A kind \in Kinds : ValidateKind(last.tok, kind).err = ErrRevoked)
    /\ [][(last' # last /\ last'.op = "InvalidateToken" /\ last'.before = "found")
          => redis' = redis]_vars

\* C28 witness: a second InvalidateToken of an issued token has returned nil
\* before the token's expires-at, after the first one put it on the denylist.
C28_Witness ==
    /\ last.op = "InvalidateToken"
    /\ last.before = "found"
    /\ last.tok \in issued
    /\ last.tok \in revokedOk
    /\ ~Expired(last.tok)
    /\ last.err = "nil"
    /\ redis[last.tok] = last.tok.claims.exp

\* C29: InvalidateToken(t) changes no denylist entry but the one keyed by t,
\* and for every other token string the outcome of validating it as either
\* kind is the same after the call as before it.
C29_RevokeTouchesOneKey ==
    [][\A tok \in Presentable :
          Revoke(tok) =>
             /\ DOMAIN redis' \ {tok} = DOMAIN redis \ {tok}
             /\ \A k \in DOMAIN redis \ {tok} : redis'[k] = redis[k]
             /\ \A other \in Presentable \ {tok} : \A kind \in Kinds :
                   ValidateKind(other, kind)' = ValidateKind(other, kind)]_vars

\* C29 witness: a token has just been put on the denylist while another
\* issued token is still accepted and a third one, revoked earlier, is still
\* answered as revoked.
C29_Witness ==
    /\ last.op = "InvalidateToken"
    /\ last.err = "nil"
    /\ last.before = "nil"
    /\ RedisGet(last.tok) = "found"
    /\ \E other \in issued \ {last.tok} :
          ValidateKind(other, issuedFor[other].kind).err = "nil"
    /\ \E other \in Presentable \ {last.tok} :
          /\ other \in revokedOk
          /\ ValidateToken(other).err = ErrRevoked

\* ------------------------------------- every operation that meets the store
NextStore ==
    \/ \E u \in Users : CallGenerateToken(u)
    \/ \E u \in Users : CallGenerateRefreshToken(u)
    \/ \E tok \in Presentable : CallValidateToken(tok)
    \/ \E tok \in Presentable : CallValidateRefreshToken(tok)
    \/ \E tok \in Presentable : CallInvalidateToken(tok)
    \/ \E u \in Users : \E pw \in {"", PasswordOf(u)} : Login(u.email, pw, FALSE)
    \/ \E tok \in RpcTokens : RpcValidateToken(tok)
    \/ Tick

SpecStore == Init /\ [][NextStore]_vars

\* the operations that only read the store or do not meet it at all
ReadOnlyOps ==
    {"GenerateToken", "GenerateRefreshToken", "ValidateToken", "ValidateRefreshToken",
     "RPC.Login", "RPC.ValidateToken"}

\* C30: a step that changes the denylist is an InvalidateToken; GenerateToken,
\* GenerateRefreshToken, ValidateToken, ValidateRefreshToken and the Login and
\* ValidateToken RPCs leave it as it was; and while the clock and the store
\* stay as they are, validating a token string gives the same outcome
\* whatever was validated or issued in between.
C30_OnlyRevokeWrites ==
    [][/\ redis' # redis => (last'.op = "InvalidateToken" /\ last'.tok \in DOMAIN redis')
       /\ (last' # last /\ last'.op \in ReadOnlyOps) => redis' = redis
       /\ (now' = now /\ redis' = redis /\ redisUp' = redisUp) =>
             \A tok \in Presentable : \A kind \in Kinds :
                ValidateKind(tok, kind)' = ValidateKind(tok, kind)]_vars

\* C30 witness: with a token on the denylist and another one issued by a
\* Login, a validation has just answered and the denylist holds exactly the
\* revoked token.
C30_Witness ==
    /\ last.op \in {"ValidateToken", "ValidateRefreshToken", "RPC.ValidateToken"}
    /\ last.tok \in issued
    /\ last.err = "nil"
    /\ DOMAIN redis = revokedOk
    /\ Cardinality(revokedOk) = 1
    /\ Cardinality(issued) > 1

\* ------------------------------------- Login with failing token generation
\* a Login that answers with the access token it made when the refresh token
\* could not be made
LoginResponseSigning_KeepsAccess(email, password, dbErr, accessErr, refreshErr) ==
    LET row == GetByEmailWithPassword(email, dbErr) IN
    IF LoginResponse(email, password, dbErr).code # CodeSuccess
    THEN LoginResponse(email, password, dbErr)
    ELSE IF accessErr
    THEN LoginResp(CodeInternal, "failed to generate access token", NoToken, NoToken, NoUser)
    ELSE IF refreshErr
    THEN LoginResp(CodeInternal, "failed to generate refresh token",
                   GenerateToken(row.user.id, row.user.email, now), NoToken, row.user)
    ELSE LoginResponse(email, password, dbErr)

\* userServiceServer.Login: the response, when GenerateToken returns an error
\* (accessErr) or GenerateRefreshToken does (refreshErr)
LoginResponseSigning(email, password, dbErr, accessErr, refreshErr) ==
    IF LoginResponse(email, password, dbErr).code # CodeSuccess
    THEN LoginResponse(email, password, dbErr)
    ELSE IF accessErr
    THEN LoginResp(CodeInternal, "failed to generate access token", NoToken, NoToken, NoUser)
    ELSE IF refreshErr
    THEN LoginResp(CodeInternal, "failed to generate refresh token", NoToken, NoToken, NoUser)
    ELSE LoginResponse(email, password, dbErr)

\* the Login RPC with a signer that can fail
LoginSigning(email, password, dbErr, accessErr, refreshErr) ==
    LET out == LoginResponseSigning(email, password, dbErr, accessErr, refreshErr)
        ok == out.code = CodeSuccess
    IN
    /\ ok => CanIssue({out.access_token, out.refresh_token})
    /\ issuedFor' =
         IF ok
         THEN Record(Record(issuedFor, out.access_token, TokenTypeAccess,
                            out.user.id, out.user.email),
                     out.refresh_token, TokenTypeRefresh, out.user.id, out.user.email)
         ELSE issuedFor
    /\ last' = Rpc("RPC.Login", NoToken, GetByEmailWithPassword(email, dbErr).err, NoClaims,
                   [email |-> email, password |-> password, dbErr |-> dbErr,
                    accessErr |-> accessErr, refreshErr |-> refreshErr], out)
    /\ UNCHANGED <<usersTable, now, redis, redisUp, pc, rt, resp, revokedOk>>

NextLogin ==
    \/ \E e \in LoginEmails : \E pw \in LoginPasswords :
       \E dbErr \in BOOLEAN : \E accessErr \in BOOLEAN : \E refreshErr \in BOOLEAN :
          LoginSigning(e, pw, dbErr, accessErr, refreshErr)
    \/ \E tok \in RpcTokens : RpcValidateToken(tok)
    \/ Tick

SpecLogin == Init /\ [][NextLogin]_vars

\* the request of a Login names a user and carries that user's password
GoodCredentials(req) ==
    \E u \in Users : u.email = req.email /\ PasswordOf(u) = req.password

\* C31: every Login response carries both tokens and the user with the
\* success code, or no token and no user with another code; and it is of the
\* second sort whenever the credentials are rejected, the user lookup fails,
\* or GenerateToken or GenerateRefreshToken returns an error.
C31_LoginAllOrNothing ==
    last.op = "RPC.Login" =>
        /\ \/ /\ last.out.code = CodeSuccess
              /\ last.out.access_token # NoToken
              /\ last.out.refresh_token # NoToken
              /\ last.out.user # NoUser
           \/ /\ last.out.code # CodeSuccess
              /\ last.out.access_token = NoToken
              /\ last.out.refresh_token = NoToken
              /\ last.out.user = NoUser
        /\ (\/ ~GoodCredentials(last.req)
            \/ last.req.dbErr
            \/ last.req.accessErr
            \/ last.req.refreshErr) => last.out.code # CodeSuccess

\* C31 witness: a Login with good credentials whose refresh token could not
\* be generated has answered with the internal code and without the access
\* token that was generated before.
C31_Witness ==
    /\ last.op = "RPC.Login"
    /\ GoodCredentials(last.req)
    /\ ~last.req.dbErr
    /\ ~last.req.accessErr
    /\ last.req.refreshErr
    /\ last.out.code = CodeInternal
    /\ last.out.access_token = NoToken

\* C32: a Logout whose token is empty answers with the invalid-argument code,
\* "token is required" and the success flag unset, and leaves the denylist
\* and the set of revoked tokens as they were.
C32_LogoutNeedsToken ==
    /\ [](LogoutResponse(NoToken, NoToken) =
             LogoutResp(CodeInvalidArgument, "token is required", FALSE))
    /\ [](LogoutStore(NoToken, NoToken) = redis)
    /\ []((last.op = "RPC.Logout" /\ last.tok = NoToken) =>
             /\ last.out.code = CodeInvalidArgument
             /\ last.out.message = "token is required"
             /\ ~last.out.success)
    /\ [][(last' # last /\ last'.op = "RPC.Logout" /\ last'.tok = NoToken)
          => (redis' = redis /\ revokedOk' = revokedOk)]_vars

\* C32 witness: with a token already on the denylist, a Logout with an empty
\* token has answered with the invalid-argument code.
C32_Witness ==
    /\ last.op = "RPC.Logout"
    /\ last.tok = NoToken
    /\ last.out.code = CodeInvalidArgument
    /\ ~last.out.success
    /\ \E tok \in issued : RedisGet(tok) = "found"

\* ------------------------------------- tokens that declare another method
\* the signing methods a presented header can declare besides HS256
OtherMethods == {"none", "RS256", "HS384"}

\* a token with the claims of tok under another header: unsigned for "none",
\* signed with a key of the presenter's otherwise
Reheader(tok, alg) ==
    [alg |-> alg, claims |-> tok.claims,
     sig |-> IF alg = "none" THEN <<>> ELSE HMAC("other-secret", alg, tok.claims)]

\* the token strings presented: every issued token, and each under every other header
MethodTokens == issued \cup { Reheader(tok, alg) : tok \in issued, alg \in OtherMethods }

NextMethod ==
    \/ \E u \in Users : CallGenerateToken(u)
    \/ \E u \in Users : CallGenerateRefreshToken(u)
    \/ \E tok \in MethodTokens : CallValidateToken(tok)
    \/ \E tok \in MethodTokens : CallValidateRefreshToken(tok)
    \/ Tick

SpecMethod == Init /\ [][NextMethod]_vars

\* C33: a token whose header declares a method outside the HMAC family is
\* rejected by ValidateToken and by ValidateRefreshToken whatever its claims,
\* and the validation that rejected it returned "unexpected signing method"
\* and no claims.
C33_OnlyHMAC ==
    /\ \A tok \in MethodTokens :
          ~IsHMAC(tok.alg) =>
             /\ ValidateToken(tok).err # "nil"
             /\ ValidateRefreshToken(tok).err # "nil"
             /\ ParseWithClaims(tok) = "unexpected signing method"
    /\ (last.op \in {"ValidateToken", "ValidateRefreshToken"} /\ ~IsHMAC(last.tok.alg))
       => /\ last.err = "unexpected signing method"
          /\ last.claims = NoClaims

\* C33 witness: the claims of an issued, unexpired refresh token, presented
\* under the "none" header, have been rejected by ValidateRefreshToken, which
\* accepts the token as it was issued.
C33_Witness ==
    /\ last.op = "ValidateRefreshToken"
    /\ last.tok.alg = "none"
    /\ last.err = "unexpected signing method"
    /\ \E tok \in issued :
          /\ tok.claims = last.tok.claims
          /\ ValidateRefreshToken(tok).err = "nil"

\* --------------------------------------------- the configured signing secret
\* the process environment: JWT_SECRET unset (the empty string) or set
Environments == { [JWT_SECRET |-> ""], [JWT_SECRET |-> secretKey] }

\* common.GetEnvString(name, default): the variable, or the default when it is empty
GetEnvString(env, name, default) == IF env[name] = "" THEN default ELSE env[name]

\* config.Load: the JWT part of the configuration
Load(env) ==
    [JWTSecret |-> GetEnvString(env, "JWT_SECRET", ""),
     AccessTokenDuration |-> accessTokenDuration,
     RefreshTokenDuration |-> refreshTokenDuration]

\* main: the manager built from the loaded configuration
MainTokenManager(env) ==
    NewTokenManager(Load(env).JWTSecret, Load(env).AccessTokenDuration,
                    Load(env).RefreshTokenDuration)

\* getJWTSecret of internal/auth/jwt.go: the variable, or a built-in default
getJWTSecret(env) ==
    IF env.JWT_SECRET = "" THEN "insecure-default-secret-change-this" ELSE env.JWT_SECRET

\* the key and the lifetimes the package-level functions of
\* internal/auth/jwt.go work with
PackageTokenManager(env) ==
    NewTokenManager(getJWTSecret(env), accessTokenDuration, refreshTokenDuration)

\* jwt.ParseWithClaims under the key of manager m
ManagerParse(m, tok) ==
    IF ~WellFormed(tok) THEN "token is malformed"
    ELSE IF ~IsHMAC(tok.alg) THEN "unexpected signing method"
    ELSE IF tok.sig # HMAC(m.secretKey, tok.alg, tok.claims) THEN "signature is invalid"
    ELSE IF tok.claims.exp # NilTime /\ ~(now < tok.claims.exp) THEN "token is expired"
    ELSE "nil"

\* the service started under env issues a token
MainIssue(env, u, kind) == Part003Issue(MainTokenManager(env), u, kind)

\* GenerateToken and GenerateRefreshToken of internal/auth/jwt.go, the
\* package-level functions: no token_type, signed with getJWTSecret()
PackageGenerate(env, userID, email, kind, t) ==
    SignedString("HS256",
                 [user_id |-> userID, email |-> email, token_type |-> "",
                  exp |-> NewNumericDate(t + IF kind = TokenTypeAccess
                                             THEN accessTokenDuration
                                             ELSE refreshTokenDuration),
                  iat |-> NewNumericDate(t)],
                 getJWTSecret(env))

\* the package-level generator, run under env, issues a token
PackageIssue(env, u, kind) ==
    /\ last' = Issued("jwt.go package", PackageTokenManager(env), kind,
                      PackageGenerate(env, u.id, u.email, kind, now))
    /\ UNCHANGED <<usersTable, now, redis, redisUp, issuedFor, pc, rt, resp, revokedOk>>

NextSecret ==
    \/ \E env \in Environments : \E u \in Users : \E kind \in Kinds : MainIssue(env, u, kind)
    \/ \E env \in Environments : \E u \in Users : \E kind \in Kinds : PackageIssue(env, u, kind)
    \/ Tick

SpecSecret == Init /\ [][NextSecret]_vars

\* C34: no token is issued, and none is accepted, under an empty signing
\* secret or under a secret built into the program.
C34_Original ==
    last.op = "Generate" =>
        \/ last.m.secretKey \notin {"", "insecure-default-secret-change-this"}
        \/ ManagerParse(last.m, last.tok) \notin {"nil", "token is expired"}

\* ------------------------------------------------- requests that name an ID
\* userPostgresRepo.GetByID: SELECT ... WHERE id
RepoGetByID(id, dbErr) ==
    IF dbErr THEN RepoResult(WrappedDbError, NoPbUser, usersTable)
    ELSE IF id \notin DOMAIN usersTable THEN RepoResult(ErrUserNotFound, NoPbUser, usersTable)
    ELSE RepoResult(NoError, PbUser(id, usersTable[id]), usersTable)

\* userPostgresRepo.Delete: DELETE FROM users WHERE id
RepoDelete(id, dbErr) ==
    IF dbErr THEN RepoResult(WrappedDbError, NoPbUser, usersTable)
    ELSE IF id \notin DOMAIN usersTable THEN RepoResult(ErrUserNotFound, NoPbUser, usersTable)
    ELSE RepoResult(NoError, NoPbUser, [k \in DOMAIN usersTable \ {id} |-> usersTable[k]])

\* userServiceServer.GetUser: the response
GetUserResponse(id, dbErr) ==
    LET r == RepoGetByID(id, dbErr) IN
    IF id < 0 THEN UserResp(CodeInvalidArgument, "user ID must be positive", NoPbUser)
    ELSE IF r.err = ErrUserNotFound THEN UserResp(CodeNotFound, "user not found", NoPbUser)
    ELSE IF r.err # NoError THEN UserResp(CodeInternal, "failed to get user", NoPbUser)
    ELSE UserResp(CodeSuccess, "success", r.user)

\* the GetUser RPC; repo tells whether the repository was called
GetUser(id, dbErr) ==
    /\ last' = Rpc("RPC.GetUser", NoToken,
                   IF id < 0 THEN NoError ELSE RepoGetByID(id, dbErr).err, NoClaims,
                   [id |-> id, dbErr |-> dbErr, repo |-> ~(id < 0)],
                   GetUserResponse(id, dbErr))
    /\ UNCHANGED <<usersTable, now, redis, redisUp, issuedFor, pc, rt, resp, revokedOk>>

DeleteResp(code, message, success) ==
    [code |-> code, message |-> message, success |-> success]

\* userServiceServer.DeleteUser: the response
DeleteUserResponse(id, dbErr) ==
    LET r == RepoDelete(id, dbErr) IN
    IF id <= 0 THEN DeleteResp(CodeInvalidArgument, "user ID must be positive", FALSE)
    ELSE IF r.err = ErrUserNotFound THEN DeleteResp(CodeNotFound, "user not found", FALSE)
    ELSE IF r.err # NoError THEN DeleteResp(CodeInternal, "failed to delete user", FALSE)
    ELSE DeleteResp(CodeSuccess, "success", TRUE)

\* the DeleteUser RPC
DeleteUser(id, dbErr) ==
    /\ usersTable' = IF id <= 0 THEN usersTable ELSE RepoDelete(id, dbErr).table
    /\ last' = Rpc("RPC.DeleteUser", NoToken,
                   IF id <= 0 THEN NoError ELSE RepoDelete(id, dbErr).err, NoClaims,
                   [id |-> id, dbErr |-> dbErr, repo |-> ~(id <= 0)],
                   DeleteUserResponse(id, dbErr))
    /\ UNCHANGED <<now, redis, redisUp, issuedFor, pc, rt, resp, revokedOk>>

\* the IDs a request can carry: negative, zero, a row's, or no row's
AnyIDs == (0 - 1)..MaxUsers

NextIds ==
    \/ \E id \in AnyIDs : \E dbErr \in BOOLEAN : GetUser(id, dbErr)
    \/ \E id \in AnyIDs : \E name \in ReqNames : \E email \in ReqEmails :
          UpdateUser(id, name, email, "", FALSE)
    \/ \E id \in AnyIDs : \E dbErr \in BOOLEAN : DeleteUser(id, dbErr)

SpecIds == Init /\ [][NextIds]_vars

\* C35: GetUser, UpdateUser and DeleteUser answer every request whose ID is
\* zero or negative with the invalid-argument code and "user ID must be
\* positive", and no error of the repository is behind that answer.
C35_Original ==
    (last.op \in {"RPC.GetUser", "RPC.UpdateUser", "RPC.DeleteUser"} /\ last.req.id <= 0)
    => /\ last.out.code = CodeInvalidArgument
       /\ last.out.message = "user ID must be positive"
       /\ last.err = NoError

\* --------------------------------------------------------------- ListUsers
defaultPageSize == 10
maxPageSize == 100

MaxInt32 == 2147483647
MinInt32 == (0 - MaxInt32) - 1

\* the upper half of the 64-bit product x * y in units of 2^16, for
\* 0 <= x <= MaxInt32 and 1 <= y <= maxPageSize, computed by 16-bit limbs
MulHigh(x, y) == (x \div 65536) * y + ((x % 65536) * y) \div 65536

\* x * y on int32 operands: the low 32 bits of the product, read as two's complement
Mul32(x, y) ==
    LET h16 == MulHigh(x, y) % 65536
        l16 == ((x % 65536) * y) % 65536
    IN IF h16 >= 32768 THEN (h16 - 65536) * 65536 + l16 ELSE h16 * 65536 + l16

\* x + 1 on an int32 operand
Inc32(x) == IF x = MaxInt32 THEN MinInt32 ELSE x + 1

RECURSIVE SortedIDs(_)
\* ORDER BY id
SortedIDs(ids) ==
    IF ids = {} THEN << >>
    ELSE LET m == CHOOSE m \in ids : \A k \in ids : m <= k
         IN <<m>> \o SortedIDs(ids \ {m})

\* userPostgresRepo.List: LIMIT limit OFFSET offset over the rows by id, and
\* COUNT(*); PostgreSQL refuses a negative OFFSET
RepoList(limit, offset, dbErr) ==
    LET ids == SortedIDs(DOMAIN usersTable)
        total == Len(ids)
        first == IF offset >= total THEN total + 1 ELSE offset + 1
        lastRow == IF limit >= total - (first - 1) THEN total ELSE first - 1 + limit
    IN
    IF dbErr THEN [err |-> WrappedDbError, users |-> << >>, total |-> 0]
    ELSE IF offset < 0
    THEN [err |-> <<"OFFSET", "must", "not", "be", "negative">>, users |-> << >>, total |-> 0]
    ELSE [err |-> NoError,
          users |-> [i \in 1..(lastRow - first + 1) |->
                        PbUser(ids[first - 1 + i], usersTable[ids[first - 1 + i]])],
          total |-> total]

\* pageSize after "if pageSize <= 0 { pageSize = defaultPageSize }"
EffectiveSize(size) == IF size <= 0 THEN defaultPageSize ELSE size

\* the request passes the checks of ListUsers
ListUsersValid(page, size) == EffectiveSize(size) <= maxPageSize /\ page >= 0

\* offset := pageNumber * pageSize
ListOffset(page, size) == Mul32(page, EffectiveSize(size))

\* int64(pageNumber+1)*int64(pageSize) < int64(total), for 0 <= total
HasMore(page, size, total) ==
    IF Inc32(page) < 0 THEN TRUE
    ELSE IF Inc32(page) > total THEN FALSE
    ELSE Inc32(page) * EffectiveSize(size) < total

ListResp(code, message, users, total, page, size, hasMore) ==
    [code |-> code, message |-> message, users |-> users, total |-> total,
     page |-> page, size |-> size, has_more |-> hasMore]

\* userServiceServer.ListUsers: the response
ListUsersResponse(page, size, dbErr) ==
    LET r == RepoList(EffectiveSize(size), ListOffset(page, size), dbErr) IN
    IF EffectiveSize(size) > maxPageSize
    THEN ListResp(CodeInvalidArgument, "page_size too large", << >>, 0, 0, 0, FALSE)
    ELSE IF page < 0
    THEN ListResp(CodeInvalidArgument, "page_number must be non-negative",
                  << >>, 0, 0, 0, FALSE)
    ELSE IF r.err # NoError
    THEN ListResp(CodeInternal, "failed to list users", << >>, 0, 0, 0, FALSE)
    ELSE ListResp(CodeSuccess, "success", r.users, r.total, page, EffectiveSize(size),
                  HasMore(page, size, r.total))

\* the ListUsers RPC; limit and offset are what the repository was called with
ListUsers(page, size, dbErr) ==
    /\ last' = Rpc("RPC.ListUsers", NoToken,
                   IF ListUsersValid(page, size)
                   THEN RepoList(EffectiveSize(size), ListOffset(page, size), dbErr).err
                   ELSE NoError, NoClaims,
                   [page |-> page, page_size |-> size, dbErr |-> dbErr,
                    repo |-> ListUsersValid(page, size),
                    limit |-> IF ListUsersValid(page, size) THEN EffectiveSize(size) ELSE 0,
                    offset |-> IF ListUsersValid(page, size) THEN ListOffset(page, size) ELSE 0],
                   ListUsersResponse(page, size, dbErr))
    /\ UNCHANGED <<usersTable, now, redis, redisUp, issuedFor, pc, rt, resp, revokedOk>>

\* the pages a request can carry: the first ones, and those around the values
\* where page * size leaves the int32 range
ReqPages ==
    {0 - 1, 0, 1, 2, 21474836, 21474837, 214748364, 214748365, 429496730,
     1073741824, MaxInt32}
ReqSizes == {0 - 1, 0, 1, 2, 10, 100, 101}

NextList ==
    \/ \E page \in ReqPages : \E size \in ReqSizes : \E dbErr \in BOOLEAN :
          ListUsers(page, size, dbErr)
    \/ \E id \in ReqIDs : DeleteUser(id, FALSE)

SpecList == Init /\ [][NextList]_vars

\* C36: for every ListUsers request that passes the checks, the offset the
\* repository is called with is not negative and is the page times the
\* effective page size as integers, without wraparound.
C36_Original ==
    (last.op = "RPC.ListUsers" /\ last.req.repo) =>
        /\ last.req.offset >= 0
        /\ last.req.offset % last.req.limit = 0
        /\ last.req.offset \div last.req.limit = last.req.page

====
